---- MODULE Spec2Model ----
(***************************************************************************)
(* Model of pagelist-bot: the query compiler (to_ir and the optimizer      *)
(* passes), and the task orchestration (API service keep-alive, task       *)
(* finder, task runners, page writer, query executor).                     *)
(*                                                                         *)
(* Option<T> values are encoded as tuples: None is <<>>, Some(x) is <<x>>. *)
(* Register ids and vector indices are 0-based as in the source; a vector  *)
(* v is a TLA+ sequence, so the element at index i is v[i + 1].            *)
(***************************************************************************)
EXTENDS Integers, Sequences, FiniteSets, TLC

None == <<>>
Some(x) == <<x>>
IsSome(o) == o # <<>>
Unwrap(o) == o[1]

Min(a, b) == IF a < b THEN a ELSE b

(***************************************************************************)
(* IR: SetConstraint and Instruction                                       *)
(***************************************************************************)

\* SetConstraint::new()
NewSetConstraint ==
    [ns |-> None, depth |-> None, redir |-> None, directlink |-> None,
     resolveredir |-> None, limit |-> None]

BinaryKinds == {"And", "Or", "Exclude", "Xor"}
ConstrainedUnaryKinds == {"Link", "LinkTo", "EmbeddedIn", "InCat", "Prefix"}
UnaryKinds == ConstrainedUnaryKinds \cup {"Toggle"}

\* One record shape for every Instruction variant; fields a variant does not
\* have keep a fixed filler (op2 = 0, titles = <<>>, cs = NewSetConstraint).
Instruction(kind, dest, op1, op2, titles, cs) ==
    [kind |-> kind, dest |-> dest, op1 |-> op1, op2 |-> op2,
     titles |-> titles, cs |-> cs]

InstSet(dest, titles, cs) == Instruction("Set", dest, 0, 0, titles, cs)
InstNop(dest, op) == Instruction("Nop", dest, op, 0, <<>>, NewSetConstraint)

\* variant: true of every instruction that has an ns constraint
ns_given(inst) ==
    IF inst.kind \in ConstrainedUnaryKinds \cup {"Set"} THEN IsSome(inst.cs.ns) ELSE FALSE

\* Instruction::ns_empty
ns_empty(inst) ==
    IF inst.kind \in ConstrainedUnaryKinds \cup {"Set"}
    THEN IF IsSome(inst.cs.ns) THEN Unwrap(inst.cs.ns) = {} ELSE FALSE
    ELSE FALSE

\* slice::binary_search_by(|probe| probe.get_dest().cmp(&target)) over the
\* half-open index range [left, right); the index found, or -1 for Err(_)
RECURSIVE BinarySearchFrom(_, _, _, _)
BinarySearchFrom(ir, target, left, right) ==
    IF left >= right THEN -1
    ELSE LET mid == left + ((right - left) \div 2)
             d == ir[mid + 1].dest
         IN IF d < target THEN BinarySearchFrom(ir, target, mid + 1, right)
            ELSE IF d > target THEN BinarySearchFrom(ir, target, left, mid)
            ELSE mid

binary_search(ir, target) == BinarySearchFrom(ir, target, 0, Len(ir))


(***************************************************************************)
(* AST.  Expr is a record [k, op, titles, c, l, r]: k is the variant;      *)
(* Unary and Constrained keep their child in l as Some(child); Binary      *)
(* keeps both children in l and r.  A Constraint is a tagged pair          *)
(* <<"Ns", <<n, ...>>>>, <<"Depth", d>>, <<"Redir", s>>,                   *)
(* <<"DirectLink", b>>, <<"ResolveRedir", b>>, <<"Limit", l>>.             *)
(***************************************************************************)

ExprPage(titles) ==
    [k |-> "Page", op |-> "", titles |-> titles, c |-> <<>>, l |-> None, r |-> None]
ExprUnary(op, e) ==
    [k |-> "Unary", op |-> op, titles |-> <<>>, c |-> <<>>, l |-> Some(e), r |-> None]
ExprConstrained(e, c) ==
    [k |-> "Constrained", op |-> "", titles |-> <<>>, c |-> c, l |-> Some(e), r |-> None]
ExprBinary(l, op, r) ==
    [k |-> "Binary", op |-> op, titles |-> <<>>, c |-> <<>>, l |-> Some(l), r |-> Some(r)]

SeqToSet(s) == {s[i] : i \in 1..Len(s)}

\* Result<SetConstraint, PLBotParserError>
CsOk(cs) == [ok |-> TRUE, cs |-> cs]
CsErr == [ok |-> FALSE, cs |-> NewSetConstraint]

\* The `for c in orig` loop of construct_constraints_from_vec, from the i-th
\* constraint on; `step` is one iteration
RECURSIVE ConstraintFold(_, _, _)
ConstraintFold(orig, i, acc) ==
    IF i > Len(orig) THEN acc
    ELSE LET c == orig[i]
             cs == acc.cs
             step ==
                IF ~acc.ok THEN acc
                ELSE IF c[1] = "Ns" THEN
                    IF IsSome(cs.ns)
                    THEN CsOk([cs EXCEPT !.ns = Some(Unwrap(cs.ns) \cap SeqToSet(c[2]))])
                    ELSE CsOk([cs EXCEPT !.ns = Some(SeqToSet(c[2]))])
                ELSE IF c[1] = "Depth" THEN
                    IF IsSome(cs.depth)
                    THEN IF Unwrap(cs.depth) # c[2] /\ (Unwrap(cs.depth) >= 0 \/ c[2] >= 0)
                         THEN CsErr ELSE acc
                    ELSE CsOk([cs EXCEPT !.depth = Some(c[2])])
                ELSE IF c[1] = "Redir" THEN
                    IF IsSome(cs.redir)
                    THEN IF Unwrap(cs.redir) # c[2] THEN CsErr ELSE acc
                    ELSE CsOk([cs EXCEPT !.redir = Some(c[2])])
                ELSE IF c[1] = "DirectLink" THEN
                    IF IsSome(cs.directlink)
                    THEN IF Unwrap(cs.directlink) # c[2] THEN CsErr ELSE acc
                    ELSE CsOk([cs EXCEPT !.directlink = Some(c[2])])
                ELSE IF c[1] = "ResolveRedir" THEN
                    IF IsSome(cs.resolveredir)
                    THEN IF Unwrap(cs.resolveredir) # c[2] THEN CsErr ELSE acc
                    ELSE CsOk([cs EXCEPT !.resolveredir = Some(c[2])])
                ELSE \* "Limit"
                    IF IsSome(cs.limit)
                    THEN IF Unwrap(cs.limit) < 0
                         THEN CsOk([cs EXCEPT !.limit = Some(c[2])])
                         ELSE CsOk([cs EXCEPT !.limit = Some(Min(c[2], Unwrap(cs.limit)))])
                    ELSE CsOk([cs EXCEPT !.limit = Some(c[2])])
         IN ConstraintFold(orig, i + 1, step)

construct_constraints_from_vec(orig) == ConstraintFold(orig, 1, CsOk(NewSetConstraint))

\* variant: the other side's value is kept when both sides agree
MergeFieldKeepsOther(o, t, compatible) ==
    IF ~IsSome(o) THEN <<TRUE, t>>
    ELSE IF ~IsSome(t) THEN <<TRUE, o>>
    ELSE IF compatible THEN <<TRUE, t>>
    ELSE <<FALSE, o>>

\* The shared shape of the depth/redir/directlink/resolveredir branches of
\* merge_constraints: <<ok, value>>
MergeField(o, t, compatible) ==
    IF ~IsSome(o) THEN <<TRUE, t>>
    ELSE IF ~IsSome(t) \/ compatible THEN <<TRUE, o>>
    ELSE <<FALSE, o>>

merge_constraints(orig, other) ==
    LET ns == IF ~IsSome(orig.ns) THEN other.ns
              ELSE IF ~IsSome(other.ns) THEN orig.ns
              ELSE Some(Unwrap(orig.ns) \cap Unwrap(other.ns))
        depth == MergeField(orig.depth, other.depth,
                    IsSome(orig.depth) /\ IsSome(other.depth)
                    /\ (Unwrap(orig.depth) = Unwrap(other.depth)
                        \/ (Unwrap(orig.depth) < 0 /\ Unwrap(other.depth) < 0)))
        redir == MergeField(orig.redir, other.redir, orig.redir = other.redir)
        directlink == MergeField(orig.directlink, other.directlink,
                                 orig.directlink = other.directlink)
        resolveredir == MergeField(orig.resolveredir, other.resolveredir,
                                   orig.resolveredir = other.resolveredir)
        limit == IF ~IsSome(orig.limit) \/ Unwrap(orig.limit) < 0 THEN other.limit
                 ELSE IF ~IsSome(other.limit) \/ Unwrap(other.limit) < 0 THEN orig.limit
                 ELSE Some(Min(Unwrap(orig.limit), Unwrap(other.limit)))
    IN IF depth[1] /\ redir[1] /\ directlink[1] /\ resolveredir[1]
       THEN CsOk([ns |-> ns, depth |-> depth[2], redir |-> redir[2],
                  directlink |-> directlink[2], resolveredir |-> resolveredir[2],
                  limit |-> limit])
       ELSE CsErr

(***************************************************************************)
(* convert.rs: to_ir / ir_helper                                           *)
(***************************************************************************)

\* PLBotParseResult: Ok((inst, fin)) or Err(err)
IrOk(inst, fin) == [ok |-> TRUE, inst |-> inst, fin |-> fin, err |-> ""]
IrErr(err) == [ok |-> FALSE, inst |-> <<>>, fin |-> 0, err |-> err]

\* The first loop of ir_helper: push nodes while descending through Unary and
\* Constrained nodes, stopping at a Binary or a Page
RECURSIVE DescendStack(_)
DescendStack(node) ==
    <<node>> \o (IF node.k \in {"Unary", "Constrained"}
                 THEN DescendStack(Unwrap(node.l)) ELSE <<>>)

\* variant: LinkTo takes a depth
RejectsConstraintButLinkToDepth(kind, con) ==
    CASE kind = "Link" ->
            \/ IsSome(con.depth) \/ IsSome(con.directlink)
            \/ (IsSome(con.redir) /\ Unwrap(con.redir) # "All")
      [] kind = "EmbeddedIn" -> IsSome(con.depth) \/ IsSome(con.directlink)
      [] kind = "InCat" ->
            \/ (IsSome(con.redir) /\ Unwrap(con.redir) # "All")
            \/ IsSome(con.directlink)
      [] kind = "Prefix" ->
            IsSome(con.depth) \/ IsSome(con.directlink) \/ IsSome(con.resolveredir)
      [] kind = "Set" ->
            \/ IsSome(con.depth) \/ IsSome(con.redir)
            \/ IsSome(con.directlink) \/ IsSome(con.resolveredir)
      [] OTHER -> FALSE

\* The `rejects if ...` tests in front of merge_constraints, per instruction
RejectsConstraint(kind, con) ==
    CASE kind = "Link" ->
            \/ IsSome(con.depth) \/ IsSome(con.directlink)
            \/ (IsSome(con.redir) /\ Unwrap(con.redir) # "All")
      [] kind = "LinkTo" -> IsSome(con.depth)
      [] kind = "EmbeddedIn" -> IsSome(con.depth) \/ IsSome(con.directlink)
      [] kind = "InCat" ->
            \/ (IsSome(con.redir) /\ Unwrap(con.redir) # "All")
            \/ IsSome(con.directlink)
      [] kind = "Prefix" ->
            IsSome(con.depth) \/ IsSome(con.directlink) \/ IsSome(con.resolveredir)
      [] kind = "Set" ->
            \/ IsSome(con.depth) \/ IsSome(con.redir)
            \/ IsSome(con.directlink) \/ IsSome(con.resolveredir)
      [] OTHER -> FALSE

\* variant: the constraint passes through Toggle as it is
ToggleConstraintKept(con) == con

\* Toggle arm: `n ^ 0b1` on every namespace of the constraint (i64, small
\* two's-complement integers)
ToggleConstraint(con) ==
    IF IsSome(con.ns)
    THEN [con EXCEPT !.ns = Some({(IF n % 2 = 0 THEN n + 1 ELSE n - 1) : n \in Unwrap(con.ns)})]
    ELSE con

\* The `while let Some((target, con)) = stack.pop()` loop of the Constrained
\* arm; stack is a sequence of <<target, con>>, its top is its last element
RECURSIVE ApplyConstraint(_, _)
ApplyConstraint(inst, stack) ==
    IF stack = <<>> THEN IrOk(inst, 0)
    ELSE LET target == stack[Len(stack)][1]
             con == stack[Len(stack)][2]
             rest == SubSeq(stack, 1, Len(stack) - 1)
             idx == binary_search(inst, target)
         IN IF idx = -1 THEN IrErr("Semantic")
            ELSE LET i == inst[idx + 1] IN
                 IF i.kind \in BinaryKinds
                 THEN ApplyConstraint(inst, rest \o << <<i.op2, con>>, <<i.op1, con>> >>)
                 ELSE IF i.kind = "Toggle"
                 THEN ApplyConstraint(inst, Append(rest, <<i.op1, ToggleConstraint(con)>>))
                 ELSE IF i.kind = "Nop"
                 THEN ApplyConstraint(inst, Append(rest, <<i.op1, con>>))
                 ELSE IF RejectsConstraint(i.kind, con) THEN IrErr("Semantic")
                 ELSE LET m == merge_constraints(i.cs, con)
                      IN IF ~m.ok THEN IrErr("Semantic")
                         ELSE ApplyConstraint([inst EXCEPT ![idx + 1].cs = m.cs], rest)

RECURSIVE ir_helper(_, _)
RECURSIVE IrPopLoop(_, _, _)

\* The `while !stack.is_empty()` loop of ir_helper
IrPopLoop(stack, inst, reg_id) ==
    IF stack = <<>> THEN IrOk(inst, reg_id - 1)
    ELSE LET node == stack[Len(stack)]
             rest == SubSeq(stack, 1, Len(stack) - 1)
         IN CASE node.k = "Page" ->
                    IrPopLoop(rest,
                              Append(inst, InstSet(reg_id, node.titles, NewSetConstraint)),
                              reg_id + 1)
              [] node.k = "Unary" ->
                    IrPopLoop(rest,
                              Append(inst, Instruction(IF node.op = "InCategory" THEN "InCat" ELSE node.op,
                                                       reg_id, reg_id - 1, 0, <<>>,
                                                       NewSetConstraint)),
                              reg_id + 1)
              [] node.k = "Binary" ->
                    LET lop == ir_helper(Unwrap(node.l), reg_id) IN
                    IF ~lop.ok THEN lop
                    ELSE LET left_dest == lop.fin
                             rop == ir_helper(Unwrap(node.r), left_dest + 1)
                         IN IF ~rop.ok THEN rop
                            ELSE LET right_dest == rop.fin
                                     dest == right_dest + 1
                                 IN IrPopLoop(rest,
                                              inst \o lop.inst \o rop.inst
                                                \o <<Instruction(node.op, dest, left_dest, right_dest,
                                                                <<>>, NewSetConstraint)>>,
                                              dest + 1)
              [] node.k = "Constrained" ->
                    LET c == construct_constraints_from_vec(node.c) IN
                    IF ~c.ok THEN IrErr("Semantic")
                    ELSE LET a == ApplyConstraint(inst, << <<reg_id - 1, c.cs>> >>)
                         IN IF ~a.ok THEN a
                            ELSE IrPopLoop(rest, a.inst, reg_id)

ir_helper(ast, reg_id) == IrPopLoop(DescendStack(ast), <<>>, reg_id)

to_ir(ast) == ir_helper(ast, 0)

(***************************************************************************)
(* optim.rs: the three passes                                              *)
(***************************************************************************)

\* for idx in 0..ir.len() of remove_redundent_talk
RECURSIVE RedundentTalkLoop(_, _)
RedundentTalkLoop(ir, idx) ==
    IF idx >= Len(ir) THEN ir
    ELSE IF ir[idx + 1].kind = "Toggle"
    THEN LET dest == ir[idx + 1].dest
             op == ir[idx + 1].op1
             idx2 == binary_search(ir, op)
         IN IF idx2 # -1 /\ ir[idx2 + 1].kind = "Toggle"
            THEN RedundentTalkLoop(
                    [ir EXCEPT ![idx + 1] = InstNop(dest, op),
                               ![idx2 + 1] = InstNop(ir[idx2 + 1].dest, ir[idx2 + 1].op1)],
                    idx + 1)
            ELSE RedundentTalkLoop(ir, idx + 1)
    ELSE RedundentTalkLoop(ir, idx + 1)

\* variant: the pass leaves every Toggle in place
keep_redundent_talk(ir) == ir
remove_redundent_talk(ir) == RedundentTalkLoop(ir, 0)

\* variant: only the instruction with the empty ns is rewritten
EmptyNsRootOnly(ir, stack) ==
    LET idx == binary_search(ir, stack[Len(stack)])
        i == ir[idx + 1]
    IN IF i.kind = "Set"
       THEN [ir EXCEPT ![idx + 1] = InstSet(i.dest, <<>>, NewSetConstraint)]
       ELSE [ir EXCEPT ![idx + 1] = InstNop(i.dest, i.op1)]

\* while let Some(opdest) = stack.pop() of remove_empty_ns
RECURSIVE EmptyNsSubtree(_, _)
EmptyNsSubtree(ir, stack) ==
    IF stack = <<>> THEN ir
    ELSE LET opdest == stack[Len(stack)]
             rest == SubSeq(stack, 1, Len(stack) - 1)
             idx == binary_search(ir, opdest)
         IN IF idx = -1 THEN EmptyNsSubtree(ir, rest)
            ELSE LET i == ir[idx + 1] IN
                 IF i.kind \in BinaryKinds
                 THEN EmptyNsSubtree(ir, rest \o <<i.op2, i.op1>>)
                 ELSE IF i.kind \in UnaryKinds
                 THEN EmptyNsSubtree([ir EXCEPT ![idx + 1] = InstNop(i.dest, i.op1)],
                                     Append(rest, i.op1))
                 ELSE IF i.kind = "Set"
                 THEN EmptyNsSubtree([ir EXCEPT ![idx + 1] = InstSet(i.dest, <<>>, NewSetConstraint)],
                                     rest)
                 ELSE EmptyNsSubtree(ir, Append(rest, i.op1))

\* for idx in 0..ir.len() of remove_empty_ns
RECURSIVE EmptyNsLoop(_, _)
EmptyNsLoop(ir, idx) ==
    IF idx >= Len(ir) THEN ir
    ELSE IF ns_empty(ir[idx + 1])
    THEN EmptyNsLoop(EmptyNsSubtree(ir, <<ir[idx + 1].dest>>), idx + 1)
    ELSE EmptyNsLoop(ir, idx + 1)

remove_empty_ns(ir) == EmptyNsLoop(ir, 0)

\* Result of remove_nop: the vector, and whether Vec::remove panicked
NopResult(ir, deleted, panic) == [ir |-> ir, deleted |-> deleted, panic |-> panic]

\* while let Ok(idx2) = ir.binary_search_by(..op) { set_dest; remove(idx) }
RECURSIVE NopInner(_, _, _, _, _)
NopInner(ir, idx, dest, op, deleted) ==
    LET idx2 == binary_search(ir, op) IN
    IF idx2 = -1 THEN NopResult(ir, deleted, FALSE)
    ELSE IF idx >= Len(ir) THEN NopResult(ir, deleted, TRUE)
    ELSE LET renamed == [ir EXCEPT ![idx2 + 1].dest = dest]
             \* ir.remove(idx)
             removed == SubSeq(renamed, 1, idx) \o SubSeq(renamed, idx + 2, Len(renamed))
         IN NopInner(removed, idx, dest, op, TRUE)

\* variant: idx is advanced after a removal as well
RECURSIVE NopOuterAdvancing(_, _)
NopOuterAdvancing(ir, idx) ==
    IF idx >= Len(ir) THEN NopResult(ir, FALSE, FALSE)
    ELSE IF ir[idx + 1].kind = "Nop"
    THEN LET res == NopInner(ir, idx, ir[idx + 1].dest, ir[idx + 1].op1, FALSE)
         IN IF res.panic THEN res ELSE NopOuterAdvancing(res.ir, idx + 1)
    ELSE NopOuterAdvancing(ir, idx + 1)

\* while idx < ir.len() of remove_nop
RECURSIVE NopOuter(_, _)
NopOuter(ir, idx) ==
    IF idx >= Len(ir) THEN NopResult(ir, FALSE, FALSE)
    ELSE IF ir[idx + 1].kind = "Nop"
    THEN LET res == NopInner(ir, idx, ir[idx + 1].dest, ir[idx + 1].op1, FALSE)
         IN IF res.panic THEN res
            ELSE IF res.deleted THEN NopOuter(res.ir, idx)
            ELSE NopOuter(res.ir, idx + 1)
    ELSE NopOuter(ir, idx + 1)

\* variant: the instruction a Nop copies is removed in place of the Nop
remove_nop_removing_copied(ir) ==
    NopResult(SelectSeq(ir, LAMBDA inst :
                  ~\E j \in 1..Len(ir) : ir[j].kind = "Nop" /\ ir[j].op1 = inst.dest),
              FALSE, FALSE)
\* variant: Nops are dropped, the instruction they copy keeps its dest
remove_nop_without_rename(ir) ==
    NopResult(SelectSeq(ir, LAMBDA inst : inst.kind # "Nop"), FALSE, FALSE)
remove_nop(ir) == NopOuter(ir, 0)

\* parser::parse.  The text-to-AST grammar is given by its result: src is
\* None for a text the grammar rejects, Some(ast) otherwise.
parse(src) ==
    IF ~IsSome(src) THEN IrErr("Parse")
    ELSE LET r == to_ir(Unwrap(src)) IN
         IF ~r.ok THEN r
         ELSE LET o == remove_nop(remove_empty_ns(remove_redundent_talk(r.inst)))
              IN IF o.panic THEN IrErr("panic") ELSE IrOk(o.ir, r.fin)

(***************************************************************************)
(* State                                                                   *)
(***************************************************************************)

VARIABLES
    \* compiler harness
    forest,                     \* expressions under construction, innermost operands last
    src,                        \* the expression last handed to parse (None: ill-formed text)
    query,                      \* Some(result of parse(src)), None before any call
    solved,                     \* Some(wiki, default limit and outcome of solve_api), None before
    cons,                       \* two constraint lists and what the constraint functions made of them
    \* APIService
    api,                        \* APIService.api: None, or Some(session)
    csrf,                       \* APIService.csrf: 0 is "", n > 0 the n-th token issued
    api_readers,                \* tasks holding APIService.api.read()
    api_writer,                 \* Some(task) holding APIService.api.write(), or None
    network_lock,               \* Some(task) holding APIService.network_lock, or None
    ka_pc,                      \* position of the keep-alive task or, once try_init has
                                \* stopped it, of try_init
    \* TaskFinder
    f_pc,                       \* position of the finder task
    f_config,                   \* on_site_config of the running cycle
    f_cycle,                    \* history of the running cycle (not program state)
    global_activate,
    global_query_config,
    global_denied_namespace,
    global_output_header,
    task_map,                   \* keys of TaskFinder.task_map
    \* the wiki the bot talks to
    wiki_ids,                   \* page ids that can appear in the task directory
    wiki_tasks,                 \* task descriptors its task pages can hold
    wiki_pages,                 \* outcomes a prop=info read of a target can have
    \* TaskRunner, PageWriter and QueryExecutor of each task id
    runner

compilerVars == <<forest, src, query, solved, cons>>
apiVars == <<api, csrf, api_readers, api_writer, network_lock, ka_pc>>
wikiVars == <<wiki_ids, wiki_tasks, wiki_pages>>
finderVars == <<f_pc, f_config, f_cycle, global_activate, global_query_config,
                global_denied_namespace, global_output_header, task_map, wikiVars>>
globalCells == <<global_activate, global_query_config, global_denied_namespace,
                 global_output_header>>
vars == <<compilerVars, apiVars, finderVars, runner>>

(***************************************************************************)
(* Inputs                                                                  *)
(***************************************************************************)

\* page ids of the task pages the wiki can hold
TaskIds == {1}
\* outputs of a task descriptor
MaxOutputs == 2
\* requests one evaluation issues before it returns
MaxRequests == 1

\* types.rs SiteConfig, as far as the finder uses it
SiteConfigChoices ==
    [activate : BOOLEAN, denyns : {{2}}, resultheader : {"H"},
     default : {[timeout |-> 1, querylimit |-> 0]}]

\* the i-th OutputFormat of a task, with the fields PageWriter::start reads
\* (target, failure, empty, success.before/item/between/after); templates are
\* character sequences
OutputFormatOf(i) ==
    [target |-> i, failure |-> <<"F">>, empty |-> <<"E">>,
     success |-> [before |-> <<"$", "+", ":">>, item |-> <<"$", "2">>,
                  between |-> <<",">>, after |-> <<"$", "$">>]]

OutputLists == {[i \in 1..n |-> OutputFormatOf(i)] : n \in {0, MaxOutputs}}

\* cron::Schedule::from_str(..) is Ok for GoodCron and Err for BadCron
GoodCron == "0 0 * * * * *"
BadCron == "every now and then"

IllFormedExpr == None
LiteralExpr == Some(ExprPage(<<"A">>))

\* TaskInfo, with the fields TaskRunner::start reads (activate, expr, cron,
\* timeout, querylimit, output)
TaskInfoOver(exprs) ==
    [activate : BOOLEAN, expr : exprs, cron : {GoodCron, BadCron},
     timeout : {None}, querylimit : {None}, output : OutputLists]

TaskInfoChoices == TaskInfoOver({IllFormedExpr, LiteralExpr})

NoInfo == [missing |-> FALSE, redirect |-> FALSE, ns |-> 0]
\* Result<Value, APIServiceError> of a prop=info read
PageQueryOk(info) == [ok |-> TRUE, info |-> info]
PageQueryErr == [ok |-> FALSE, info |-> NoInfo]
\* the outcomes of a prop=info read: an error, or the page object
PageQueryChoices ==
    {PageQueryErr} \cup
    { PageQueryOk(i) : i \in
        { [missing |-> TRUE, redirect |-> FALSE, ns |-> 0],
          [missing |-> FALSE, redirect |-> TRUE, ns |-> 0],
          [missing |-> FALSE, redirect |-> FALSE, ns |-> 0],
          [missing |-> FALSE, redirect |-> FALSE, ns |-> 2] } }

Title(ns, name) == [ns |-> ns, name |-> name]
\* str::cmp on the names used
NameRank(name) == IF name = "P" THEN 1 ELSE 2

(***************************************************************************)
(* Solver (solver/mod.rs, solver/apisolver.rs).  The wiki behind the       *)
(* gateway is a record g of relations over titles:                         *)
(*   links <<page, target>>, embeds <<page, transcluded page>>,            *)
(*   cat <<member, category>>, prefix <<prefix title, page>>,              *)
(*   redirect <<redirect page, target>>.                                   *)
(* A result of the solver is [ok, err, set, reqs]: reqs are the parameter  *)
(* maps handed to API_SERVICE.get_limit, in order.                         *)
(***************************************************************************)

NS_FILE == 6
NS_CATEGORY == 14

\* Title::new_from_full on the full names used
title_new_from_full(t) ==
    CASE t = "Talk:A" -> Title(1, "A")
      [] t = "Category:X" -> Title(NS_CATEGORY, "X")
      [] OTHER -> Title(0, t)

\* variant: every title is mapped to its talk page
into_talk(title) == [title EXCEPT !.ns = IF @ % 2 = 0 THEN @ + 1 ELSE @]

\* Title::into_toggle_talk
into_toggle_talk(title) == [title EXCEPT !.ns = IF @ % 2 = 0 THEN @ + 1 ELSE @ - 1]

\* Title::full_pretty: None when the site has no namespace with the title's id
full_pretty(title) == IF title.ns >= 0 THEN Some(title) ELSE None

\* RedirectFilterStrategy::to_string
redir_to_string(strat) ==
    CASE strat = "NoRedirect" -> "nonredirects"
      [] strat = "OnlyRedirect" -> "redirects"
      [] OTHER -> "all"

limit_to_max(limit) == IF limit < 0 THEN None ELSE Some(limit)

\* the hashmap! of one request: generator, its title parameter, the
\* namespace parameter (None: not sent), g..filterredir ("all" when the
\* generator has none), redirects=1, gblredirect=1, gcmtype
Params(generator, title, namespace, filterredir, redirects, blredirect, cmtype) ==
    [generator |-> generator, title |-> title, namespace |-> namespace,
     filterredir |-> filterredir, redirects |-> redirects,
     blredirect |-> blredirect, cmtype |-> cmtype]

\* APIService::get_limit against the wiki g: the pages the generator yields
\* for params, at most max of them (the same ones for equal requests), with
\* redirects among them resolved when redirects=1.  The response is
\* [pages, redirects], redirects holding the "from" titles.
get_limit(g, params, max) ==
    LET t == params.title
        isRedirect(p) == \E rd \in g.redirect : rd[1] = p
        byRedir(S) ==
            CASE params.filterredir = "nonredirects" -> {p \in S : ~isRedirect(p)}
              [] params.filterredir = "redirects" -> {p \in S : isRedirect(p)}
              [] OTHER -> S
        byNs(S) ==
            IF IsSome(params.namespace)
            THEN {p \in S : p.ns \in Unwrap(params.namespace)}
            ELSE S
        linkers(x) == {l[1] : l \in {l \in g.links : l[2] = x}}
        redirsTo(x) == {rd[1] : rd \in {rd \in g.redirect : rd[2] = x}}
        typeOf(p) ==
            IF p.ns = NS_CATEGORY THEN "subcat"
            ELSE IF p.ns = NS_FILE THEN "file" ELSE "page"
        generated ==
            CASE params.generator = "links" ->
                    byNs({l[2] : l \in {l \in g.links : l[1] = t}})
              [] params.generator = "backlinks" ->
                    byNs(byRedir(linkers(t) \cup redirsTo(t)
                                 \cup (IF params.blredirect
                                       THEN UNION {linkers(r) : r \in redirsTo(t)}
                                       ELSE {})))
              [] params.generator = "embeddedin" ->
                    byNs(byRedir({e[1] : e \in {e \in g.embeds : e[2] = t}}))
              [] params.generator = "categorymembers" ->
                    byNs({m \in {c[1] : c \in {c \in g.cat : c[2] = t}} :
                            typeOf(m) \in params.cmtype})
              [] params.generator = "allpages" ->
                    byRedir({p[2] : p \in {p \in g.prefix : p[1] = t}})
        cut ==
            IF IsSome(max)
            THEN IF Cardinality(generated) > Unwrap(max)
                 THEN CHOOSE S \in SUBSET generated : Cardinality(S) = Unwrap(max)
                 ELSE generated
            ELSE generated
        from == IF params.redirects THEN {p \in cut : isRedirect(p)} ELSE {}
    IN [pages |-> (cut \ from) \cup {rd[2] : rd \in {rd \in g.redirect : rd[1] \in from}},
        redirects |-> from]

pages_object_to_titles_set(data, redirected, redirect_filter) ==
    IF redirected
    THEN CASE redirect_filter = "NoRedirect" -> data.pages
           [] redirect_filter = "OnlyRedirect" -> data.redirects
           [] OTHER -> data.redirects \cup data.pages
    ELSE data.pages

\* Result<HashSet<Title>, SolveError> with the requests made
SolveOk(set, reqs) == [ok |-> TRUE, err |-> "", set |-> set, reqs |-> reqs]
SolveErr(err, reqs) == [ok |-> FALSE, err |-> err, set |-> {}, reqs |-> reqs]

\* variant: the second hop is never requested
get_backlinks_direct(g, title, ns, level_2, redirect_strat, follow_redir, limit) ==
    IF ~IsSome(full_pretty(title)) THEN SolveOk({}, <<>>)
    ELSE LET params == Params("backlinks", Unwrap(full_pretty(title)), ns,
                              redir_to_string(redirect_strat), follow_redir, FALSE, {})
             res == get_limit(g, params, limit_to_max(limit))
         IN SolveOk(pages_object_to_titles_set(res, follow_redir, redirect_strat), <<params>>)

get_backlinks_one(g, title, ns, level_2, redirect_strat, follow_redir, limit) ==
    IF ~IsSome(full_pretty(title)) THEN SolveOk({}, <<>>)
    ELSE LET params == Params("backlinks", Unwrap(full_pretty(title)),
                              IF level_2 THEN None ELSE ns,
                              redir_to_string(redirect_strat), follow_redir, level_2, {})
             res == get_limit(g, params, limit_to_max(limit))
             title_set == pages_object_to_titles_set(res, follow_redir, redirect_strat)
         IN SolveOk(IF level_2 /\ IsSome(ns)
                    THEN {p \in title_set : p.ns \in Unwrap(ns)}
                    ELSE title_set,
                    <<params>>)

\* variant: subcategories are queued whether or not they were visited
NewSubcatsUnchecked(title_set_2, visited_cats) ==
    {sub \in title_set_2 : sub.ns = NS_CATEGORY}

\* the subcategories of one response that are added to visit_cat_queue
NewSubcats(title_set_2, visited_cats) ==
    {sub \in title_set_2 : sub.ns = NS_CATEGORY /\ sub \notin visited_cats}

\* The `while let Some((this_cat, this_depth)) = visit_cat_queue.pop_front()`
\* loop of get_category_members_one; a is the fixed part of its frame.  fuel
\* bounds the iterations that are evaluated: a run that needs more ends with
\* the outcome "diverged".
RECURSIVE VisitCatQueue(_, _, _, _, _, _, _)
VisitCatQueue(g, a, visit_cat_queue, visited_cats, result_set, reqs, fuel) ==
    IF visit_cat_queue = <<>> THEN SolveOk(result_set, reqs)
    ELSE IF fuel = 0 THEN SolveErr("diverged", reqs)
    ELSE LET this_cat == visit_cat_queue[1][1]
             this_depth == visit_cat_queue[1][2]
             deeper == a.depth < 0 \/ this_depth < a.depth
             left == IF IsSome(a.ns_clone) THEN Unwrap(a.ns_clone) ELSE {}
             cmtype ==
                (IF IsSome(a.ns_clone) => left # {} THEN {"page"} ELSE {})
                \cup (IF a.result_has_ns_file THEN {"file"} ELSE {})
                \cup (IF a.result_has_ns_category \/ deeper THEN {"subcat"} ELSE {})
             cmnamespace ==
                left
                \cup (IF a.result_has_ns_file THEN {NS_FILE} ELSE {})
                \cup (IF a.result_has_ns_category \/ deeper THEN {NS_CATEGORY} ELSE {})
             params == Params("categorymembers", this_cat,
                              IF IsSome(a.ns_clone) THEN Some(cmnamespace) ELSE None,
                              "all", a.follow_redir, FALSE, cmtype)
             res == get_limit(g, params, limit_to_max(a.limit))
             title_set_2 == pages_object_to_titles_set(res, a.follow_redir, "NoRedirect")
             subs == IF deeper THEN NewSubcats(title_set_2, visited_cats) ELSE {}
             RECURSIVE Queued(_)
             Queued(S) ==
                IF S = {} THEN <<>>
                ELSE LET sub == CHOOSE x \in S : TRUE
                     IN <<<<sub, this_depth + 1>>>> \o Queued(S \ {sub})
         IN IF this_cat.ns # NS_CATEGORY THEN SolveErr("NotCategory", reqs)
            ELSE VisitCatQueue(g, a, Tail(visit_cat_queue) \o Queued(subs),
                               visited_cats \cup subs,
                               result_set \cup (IF a.result_has_ns_category
                                                THEN title_set_2
                                                ELSE {f \in title_set_2 : f.ns # NS_CATEGORY}),
                               Append(reqs, params), fuel - 1)

\* fuel: with every category visited at most once the loop body runs at
\* most once per title of the category relation and once for the title asked
\* variant: the depth is ignored, only the category asked for is requested
get_category_members_root_only(g, title, ns, depth, follow_redir, limit) ==
    VisitCatQueue(g,
        [ns_clone |-> IF IsSome(ns) THEN Some(Unwrap(ns) \ {NS_CATEGORY, NS_FILE}) ELSE None,
         result_has_ns_category |-> IsSome(ns) => NS_CATEGORY \in Unwrap(ns),
         result_has_ns_file |-> IsSome(ns) => NS_FILE \in Unwrap(ns),
         depth |-> 0, follow_redir |-> follow_redir, limit |-> limit],
        <<<<title, 0>>>>, {title}, {}, <<>>,
        Cardinality({c[2] : c \in g.cat} \cup {c[1] : c \in g.cat}) + 1)

\* variant: without an ns filter subcategories are left out of the result
get_category_members_without_subcats(g, title, ns, depth, follow_redir, limit) ==
    VisitCatQueue(g,
        [ns_clone |-> IF IsSome(ns) THEN Some(Unwrap(ns) \ {NS_CATEGORY, NS_FILE}) ELSE None,
         result_has_ns_category |-> IsSome(ns) /\ NS_CATEGORY \in Unwrap(ns),
         result_has_ns_file |-> IsSome(ns) => NS_FILE \in Unwrap(ns),
         depth |-> depth, follow_redir |-> follow_redir, limit |-> limit],
        <<<<title, 0>>>>, {title}, {}, <<>>,
        Cardinality({c[2] : c \in g.cat} \cup {c[1] : c \in g.cat}) + 1)

get_category_members_one(g, title, ns, depth, follow_redir, limit) ==
    VisitCatQueue(g,
        [ns_clone |-> IF IsSome(ns) THEN Some(Unwrap(ns) \ {NS_CATEGORY, NS_FILE}) ELSE None,
         result_has_ns_category |-> IsSome(ns) => NS_CATEGORY \in Unwrap(ns),
         result_has_ns_file |-> IsSome(ns) => NS_FILE \in Unwrap(ns),
         depth |-> depth, follow_redir |-> follow_redir, limit |-> limit],
        <<<<title, 0>>>>, {title}, {}, <<>>,
        Cardinality({c[2] : c \in g.cat} \cup {c[1] : c \in g.cat}) + 1)

\* variant: the enumeration is requested whatever the ns filter is
get_prefix_index_always(g, title, ns, redirect_strat, limit) ==
    LET params == Params("allpages", title, Some({title.ns}),
                         redir_to_string(redirect_strat), FALSE, FALSE, {})
        res == get_limit(g, params, limit_to_max(limit))
    IN SolveOk(pages_object_to_titles_set(res, FALSE, redirect_strat), <<params>>)

get_prefix_index_one(g, title, ns, redirect_strat, limit) ==
    IF IsSome(ns) /\ title.ns \notin Unwrap(ns) THEN SolveOk({}, <<>>)
    ELSE LET params == Params("allpages", title, Some({title.ns}),
                              redir_to_string(redirect_strat), FALSE, FALSE, {})
             res == get_limit(g, params, limit_to_max(limit))
         IN SolveOk(pages_object_to_titles_set(res, FALSE, redirect_strat), <<params>>)

get_embed_one(g, title, ns, redirect_strat, follow_redir, limit) ==
    IF ~IsSome(full_pretty(title)) THEN SolveOk({}, <<>>)
    ELSE LET params == Params("embeddedin", Unwrap(full_pretty(title)), ns,
                              redir_to_string(redirect_strat), follow_redir, FALSE, {})
             res == get_limit(g, params, limit_to_max(limit))
         IN SolveOk(pages_object_to_titles_set(res, follow_redir, redirect_strat), <<params>>)

get_links_one(g, title, ns, follow_redir, limit) ==
    IF ~IsSome(full_pretty(title)) THEN SolveOk({}, <<>>)
    ELSE LET params == Params("links", Unwrap(full_pretty(title)), ns, "all",
                              follow_redir, FALSE, {})
             res == get_limit(g, params, limit_to_max(limit))
         IN SolveOk(pages_object_to_titles_set(res, follow_redir, "NoRedirect"), <<params>>)

\* Option::unwrap_or
UnwrapOr(o, default) == IF IsSome(o) THEN Unwrap(o) ELSE default

\* variant: the ns constraint of a Set is not applied
SetTitlesUnfiltered(titles, cs) == {title_new_from_full(t) : t \in SeqToSet(titles)}

\* the `for t in titles` loop of the Set arm
SetTitles(titles, cs) ==
    {title \in {title_new_from_full(t) : t \in SeqToSet(titles)} :
        IsSome(cs.ns) => title.ns \in Unwrap(cs.ns)}

\* variant: Exclude takes the operands in the other order
SetOpSwapped(kind, set1, set2) ==
    CASE kind = "And" -> set1 \cap set2
      [] kind = "Or" -> set1 \cup set2
      [] kind = "Exclude" -> set2 \ set1
      [] kind = "Xor" -> (set1 \ set2) \cup (set2 \ set1)

\* intersection, union, difference and symmetric_difference of the And, Or,
\* Exclude and Xor arms
SetOp(kind, set1, set2) ==
    CASE kind = "And" -> set1 \cap set2
      [] kind = "Or" -> set1 \cup set2
      [] kind = "Exclude" -> set1 \ set2
      [] kind = "Xor" -> (set1 \ set2) \cup (set2 \ set1)

\* variant: a fetch over several pages queries one of them
OperandCaseAny(set) == IF set = {} THEN "empty" ELSE "single"

\* the `if set.is_empty() .. else if set.len() > 1 .. else` chain of the
\* Link, LinkTo, EmbeddedIn, InCat and Prefix arms
OperandCase(set) ==
    IF set = {} THEN "empty"
    ELSE IF Cardinality(set) > 1 THEN "multiple"
    ELSE "single"

\* The `for inst in query.0.iter()` loop of solve_api from the i-th
\* instruction on, and the read of register query.1 after it.  reg is the
\* register pool, a function from the ids written so far; a request is
\* logged as [dest, params] with the dest of the instruction that issued it.
\* The outcome is [ok, err, set, reg, reqs].
RECURSIVE SolveFrom(_, _, _, _, _, _)
SolveFrom(g, qry, default_limit, i, reg, reqs) ==
    LET Done(ok, err, set) ==
            [ok |-> ok, err |-> err, set |-> set, reg |-> reg, reqs |-> reqs]
        has(r) == r \in DOMAIN reg
    IN IF i > Len(qry[1])
       THEN IF has(qry[2]) THEN Done(TRUE, "", reg[qry[2]])
            ELSE Done(FALSE, "UnknownIntermediateValue", {})
       ELSE LET inst == qry[1][i]
                cs == inst.cs
                Insert(set, new) ==
                    SolveFrom(g, qry, default_limit, i + 1, (inst.dest :> set) @@ reg,
                              reqs \o [k \in 1..Len(new) |-> [dest |-> inst.dest, params |-> new[k]]])
                One(t) ==
                    CASE inst.kind = "Link" ->
                            get_links_one(g, t, cs.ns, UnwrapOr(cs.resolveredir, FALSE),
                                          UnwrapOr(cs.limit, default_limit))
                      [] inst.kind = "LinkTo" ->
                            get_backlinks_one(g, t, cs.ns, ~UnwrapOr(cs.directlink, FALSE),
                                              UnwrapOr(cs.redir, "All"),
                                              UnwrapOr(cs.resolveredir, FALSE),
                                              UnwrapOr(cs.limit, default_limit))
                      [] inst.kind = "EmbeddedIn" ->
                            get_embed_one(g, t, cs.ns, UnwrapOr(cs.redir, "All"),
                                          UnwrapOr(cs.resolveredir, FALSE),
                                          UnwrapOr(cs.limit, default_limit))
                      [] inst.kind = "InCat" ->
                            get_category_members_one(g, t, cs.ns, UnwrapOr(cs.depth, 0),
                                                     UnwrapOr(cs.resolveredir, FALSE),
                                                     UnwrapOr(cs.limit, default_limit))
                      [] inst.kind = "Prefix" ->
                            get_prefix_index_one(g, t, cs.ns, UnwrapOr(cs.redir, "All"),
                                                 UnwrapOr(cs.limit, default_limit))
            IN CASE inst.kind \in BinaryKinds ->
                    IF ~(has(inst.op1) /\ has(inst.op2))
                    THEN Done(FALSE, "UnknownIntermediateValue", {})
                    ELSE Insert(SetOp(inst.kind, reg[inst.op1], reg[inst.op2]), <<>>)
                 [] inst.kind \in ConstrainedUnaryKinds ->
                    IF ~has(inst.op1) THEN Done(FALSE, "UnknownIntermediateValue", {})
                    ELSE LET set == reg[inst.op1]
                         IN IF OperandCase(set) = "empty" THEN Insert({}, <<>>)
                            ELSE IF OperandCase(set) = "multiple"
                            THEN Done(FALSE, "QueryForMultiplePages", {})
                            ELSE LET res_one == One(CHOOSE t \in set : TRUE)
                                 IN IF res_one.ok THEN Insert(res_one.set, res_one.reqs)
                                    ELSE [Done(FALSE, res_one.err, {}) EXCEPT
                                            !.reqs = @ \o [k \in 1..Len(res_one.reqs) |->
                                                [dest |-> inst.dest, params |-> res_one.reqs[k]]]]
                 [] inst.kind = "Toggle" ->
                    IF ~has(inst.op1) THEN Done(FALSE, "UnknownIntermediateValue", {})
                    ELSE Insert({into_toggle_talk(title) : title \in reg[inst.op1]}, <<>>)
                 [] inst.kind = "Set" ->
                    Insert(SetTitles(inst.titles, cs), <<>>)
                 [] inst.kind = "Nop" ->
                    IF ~has(inst.op1) THEN Done(FALSE, "UnknownIntermediateValue", {})
                    ELSE Insert(reg[inst.op1], <<>>)

\* solve_api(query, default_limit) with the gateway answering from wiki g;
\* qry is the query <<instructions, final register>>
solve_api(g, qry, default_limit) == SolveFrom(g, qry, default_limit, 1, <<>>, <<>>)

(***************************************************************************)
(* APIService (apiservice.rs)                                              *)
(***************************************************************************)

\* lock holders other than the runners, which are named by their task id
KeepAlive == -1
Finder == 0

\* variant: a read is granted while a writer waits
ApiReadFreeReadPreferring == ~IsSome(api_writer)

\* tokio RwLock, write-preferring with a first-in first-out queue: a read is
\* granted when no writer holds the lock or waits for it (the keep-alive
\* task and try_init call write() as they enter these positions); a write
\* when nobody holds it
ApiReadFree == ~IsSome(api_writer) /\ ka_pc \notin {"wlock", "ti_install"}
\* tokio Mutex
NetworkLockFree == ~IsSome(network_lock)

\* the token a successful get_edit_token installs: never the empty initial
\* value, and different from the token it replaces
FreshCsrf(c) == IF c = 1 THEN 2 ELSE 1

\* APIService::new, APIService::setup, APIService::start
InitApi ==
    /\ api = None
    /\ csrf = 0
    /\ api_readers = {}
    /\ api_writer = None
    /\ network_lock = None
    /\ ka_pc = "tick"

\* interval.tick().await
KaTick ==
    /\ ka_pc = "tick"
    /\ ka_pc' = "net"
    /\ UNCHANGED <<api, csrf, api_readers, api_writer, network_lock>>
    /\ UNCHANGED <<compilerVars, finderVars, runner>>

\* let _ = self.network_lock.lock().await;  the guard is not bound and is
\* dropped at the end of the statement
KaNetworkLock ==
    /\ ka_pc = "net"
    /\ NetworkLockFree
    /\ network_lock' = None
    /\ ka_pc' = "wlock"
    /\ UNCHANGED <<api, csrf, api_readers, api_writer>>
    /\ UNCHANGED <<compilerVars, finderVars, runner>>

\* variant: the pass goes on to the status check whether or not a session exists
KaWriteLockThenCheck ==
    /\ ka_pc = "wlock"
    /\ ~IsSome(api_writer) /\ api_readers = {}
    /\ api_writer' = Some(KeepAlive)
    /\ ka_pc' = "check"
    /\ UNCHANGED <<api, csrf, api_readers, network_lock>>
    /\ UNCHANGED <<compilerVars, finderVars, runner>>

\* let mut api = self.api.write().await;  held to the end of the loop body
KaWriteLock ==
    /\ ka_pc = "wlock"
    /\ ~IsSome(api_writer) /\ api_readers = {}
    /\ api_writer' = Some(KeepAlive)
    /\ ka_pc' = IF IsSome(api) THEN "check" ELSE "init"
    /\ UNCHANGED <<api, csrf, api_readers, network_lock>>
    /\ UNCHANGED <<compilerVars, finderVars, runner>>

\* variant: a status check that did not come back with an error object
\* discards the session
KaCheckDropsSession ==
    /\ ka_pc = "check"
    /\ \E response \in {"client_error", "valid", "error"} :
          IF response = "error"
          THEN /\ ka_pc' = "relogin"
               /\ UNCHANGED <<api, api_writer>>
          ELSE /\ ka_pc' = "tick"
               /\ api' = None
               /\ api_writer' = None
    /\ UNCHANGED <<csrf, api_readers, network_lock>>
    /\ UNCHANGED <<compilerVars, finderVars, runner>>

\* api.get_query_api_json(&params).await of the status check
KaCheck ==
    /\ ka_pc = "check"
    /\ \E response \in {"client_error", "valid", "error"} :
          IF response = "error"
          THEN /\ ka_pc' = "relogin"
               /\ UNCHANGED api_writer
          ELSE /\ ka_pc' = "tick"
               /\ api_writer' = None
    /\ UNCHANGED <<api, csrf, api_readers, network_lock>>
    /\ UNCHANGED <<compilerVars, finderVars, runner>>

\* api.login(..).await; if let Ok(csrf) = api.get_edit_token().await
KaRelogin ==
    /\ ka_pc = "relogin"
    /\ \E token_ok \in BOOLEAN :
          csrf' = IF token_ok THEN FreshCsrf(csrf) ELSE csrf
    /\ api_writer' = None
    /\ ka_pc' = "tick"
    /\ UNCHANGED <<api, api_readers, network_lock>>
    /\ UNCHANGED <<compilerVars, finderVars, runner>>

\* Api::new(&api_url).await and, on success, login, get_edit_token, *api = Some
KaInit ==
    /\ ka_pc = "init"
    /\ \E api_ok \in BOOLEAN, token_ok \in BOOLEAN :
          IF api_ok
          THEN /\ csrf' = IF token_ok THEN FreshCsrf(csrf) ELSE csrf
               /\ api' = Some("session")
          ELSE UNCHANGED <<api, csrf>>
    /\ api_writer' = None
    /\ ka_pc' = "tick"
    /\ UNCHANGED <<api_readers, network_lock>>
    /\ UNCHANGED <<compilerVars, finderVars, runner>>

\* APIService::try_init, one step per await: stop() aborts the keep-alive
\* task, whose write guard is dropped with it; Api::new, login and
\* get_edit_token with `*self_csrf = csrf`; then self.api.write().await and
\* `*api = Some(api_obj)`
TryInit ==
    /\ CASE ka_pc \notin {"ti_new", "ti_install"} ->
              /\ ka_pc' = "ti_new"
              /\ api_writer' = IF api_writer = Some(KeepAlive) THEN None ELSE api_writer
              /\ UNCHANGED <<api, csrf>>
         [] ka_pc = "ti_new" ->
              /\ \E api_ok \in BOOLEAN, token_ok \in BOOLEAN :
                    IF api_ok
                    THEN /\ csrf' = IF token_ok THEN FreshCsrf(csrf) ELSE csrf
                         /\ ka_pc' = "ti_install"
                    ELSE /\ ka_pc' = "stopped"
                         /\ UNCHANGED csrf
              /\ UNCHANGED <<api, api_writer>>
         [] ka_pc = "ti_install" ->
              /\ ~IsSome(api_writer) /\ api_readers = {}
              /\ api' = Some("session")
              /\ ka_pc' = "stopped"
              /\ UNCHANGED <<csrf, api_writer>>
    /\ UNCHANGED <<api_readers, network_lock>>
    /\ UNCHANGED <<compilerVars, finderVars, runner>>

(***************************************************************************)
(* Compiler harness: expressions are built bottom-up and handed to parse   *)
(***************************************************************************)

MaxNodes == 5

\* number of AST nodes plus constraint fragments of an expression
RECURSIVE ExprSize(_)
ExprSize(e) ==
    1 + Len(e.c)
      + (IF IsSome(e.l) THEN ExprSize(Unwrap(e.l)) ELSE 0)
      + (IF IsSome(e.r) THEN ExprSize(Unwrap(e.r)) ELSE 0)

RECURSIVE ForestSize(_)
ForestSize(f) == IF f = <<>> THEN 0 ELSE ExprSize(f[1]) + ForestSize(Tail(f))

Top(f) == f[Len(f)]
ReplaceTop(f, e) == [f EXCEPT ![Len(f)] = e]

InitCompiler ==
    /\ forest = <<>>
    /\ src = None
    /\ query = None
    /\ solved = None
    /\ cons = None

PushPage ==
    /\ ~IsSome(query)
    /\ ForestSize(forest) < MaxNodes
    /\ \E t \in {<<"A">>, <<"A", "B">>} : forest' = Append(forest, ExprPage(t))
    /\ UNCHANGED <<src, query, solved, cons>>
    /\ UNCHANGED <<apiVars, finderVars, runner>>

WrapUnary ==
    /\ ~IsSome(query)
    /\ forest # <<>>
    /\ ForestSize(forest) < MaxNodes
    /\ \E op \in {"Link", "LinkTo", "EmbeddedIn", "InCategory", "Toggle", "Prefix"} : forest' = ReplaceTop(forest, ExprUnary(op, Top(forest)))
    /\ UNCHANGED <<src, query, solved, cons>>
    /\ UNCHANGED <<apiVars, finderVars, runner>>

WrapConstrained ==
    /\ ~IsSome(query)
    /\ forest # <<>>
    /\ ForestSize(forest) < MaxNodes
    /\ forest' = ReplaceTop(forest, ExprConstrained(Top(forest), <<>>))
    /\ UNCHANGED <<src, query, solved, cons>>
    /\ UNCHANGED <<apiVars, finderVars, runner>>

AddConstraint ==
    /\ ~IsSome(query)
    /\ forest # <<>>
    /\ Top(forest).k = "Constrained"
    /\ ForestSize(forest) < MaxNodes
    /\ \E c \in { <<"Ns", <<>> >>, <<"Ns", <<0>> >>, <<"Ns", <<0, 1>> >>, <<"Ns", <<-1>> >>,
                 <<"Depth", -1>>, <<"Depth", 1>>, <<"Redir", "NoRedirect">>, <<"Redir", "All">>,
                 <<"DirectLink", TRUE>>, <<"ResolveRedir", TRUE>>, <<"Limit", 1>> } :
          forest' = ReplaceTop(forest, [Top(forest) EXCEPT !.c = Append(@, c)])
    /\ UNCHANGED <<src, query, solved, cons>>
    /\ UNCHANGED <<apiVars, finderVars, runner>>

CombineBinary ==
    /\ ~IsSome(query)
    /\ Len(forest) >= 2
    /\ ForestSize(forest) < MaxNodes
    /\ \E op \in {"And", "Or", "Exclude", "Xor"} :
          forest' = Append(SubSeq(forest, 1, Len(forest) - 2),
                           ExprBinary(forest[Len(forest) - 1], op, forest[Len(forest)]))
    /\ UNCHANGED <<src, query, solved, cons>>
    /\ UNCHANGED <<apiVars, finderVars, runner>>

\* parse(src) on a well-formed text
Compile ==
    /\ ~IsSome(query)
    /\ Len(forest) = 1
    /\ src' = Some(forest[1])
    /\ query' = Some(parse(Some(forest[1])))
    /\ forest' = <<>>
    /\ UNCHANGED <<solved, cons>>
    /\ UNCHANGED <<apiVars, finderVars, runner>>

\* parse(src) on a text the grammar rejects
CompileIllFormed ==
    /\ ~IsSome(query)
    /\ forest = <<>>
    /\ src' = None
    /\ query' = Some(parse(None))
    /\ UNCHANGED <<forest, solved, cons>>
    /\ UNCHANGED <<apiVars, finderVars, runner>>


(***************************************************************************)
(* Solver harness: solve_api applied to a compiled query over a wiki       *)
(***************************************************************************)

\* the spec's category tree X -> {Y, p1}, Y -> {Z, p2}, Z -> {p3}, and a few
\* links, transclusions and pages beginning with "A"
WikiTree ==
    [links |-> {<<Title(0, "A"), Title(0, "B")>>, <<Title(0, "B"), Title(0, "A")>>,
                <<Title(1, "A"), Title(0, "A")>>},
     embeds |-> {<<Title(0, "B"), Title(0, "A")>>},
     cat |-> {<<Title(14, "Y"), Title(14, "X")>>, <<Title(0, "p1"), Title(14, "X")>>,
              <<Title(14, "Z"), Title(14, "Y")>>, <<Title(0, "p2"), Title(14, "Y")>>,
              <<Title(0, "p3"), Title(14, "Z")>>},
     prefix |-> {<<Title(0, "A"), Title(0, "A")>>, <<Title(0, "A"), Title(0, "AB")>>},
     redirect |-> {}]

\* the same categories with Z -> X closing a cycle and a file in X; R is a
\* redirect to A that p1 links to, R2 a redirect to B that A links to
WikiCycle ==
    [links |-> {<<Title(0, "A"), Title(0, "R2")>>, <<Title(0, "B"), Title(0, "A")>>,
                <<Title(0, "p1"), Title(0, "R")>>},
     embeds |-> {<<Title(0, "B"), Title(0, "A")>>, <<Title(0, "R"), Title(0, "A")>>},
     cat |-> WikiTree.cat \cup {<<Title(14, "X"), Title(14, "Z")>>,
                                <<Title(6, "F"), Title(14, "X")>>},
     prefix |-> {<<Title(0, "A"), Title(0, "A")>>, <<Title(0, "A"), Title(0, "AB")>>},
     redirect |-> {<<Title(0, "R"), Title(0, "A")>>, <<Title(0, "R2"), Title(0, "B")>>,
                   <<Title(0, "AB"), Title(0, "A")>>}]

\* page("A"), page("Category:X") and page("A", "Talk:A") as operands
PushSeed ==
    /\ ~IsSome(query)
    /\ ForestSize(forest) < MaxNodes
    /\ \E t \in {<<"A">>, <<"Category:X">>, <<"A", "Talk:A">>} : forest' = Append(forest, ExprPage(t))
    /\ UNCHANGED <<src, query, solved, cons>>
    /\ UNCHANGED <<apiVars, finderVars, runner>>

\* the constraints the solver is exercised with
AddSolverConstraint ==
    /\ ~IsSome(query)
    /\ forest # <<>>
    /\ Top(forest).k = "Constrained"
    /\ ForestSize(forest) < MaxNodes
    /\ \E c \in { <<"Ns", <<>> >>, <<"Ns", <<0>> >>, <<"Ns", <<0, 14>> >>,
                 <<"Depth", -1>>, <<"Depth", 1>>, <<"Redir", "NoRedirect">>,
                 <<"DirectLink", TRUE>>, <<"ResolveRedir", TRUE>>, <<"Limit", 1>> } :
          forest' = ReplaceTop(forest, [Top(forest) EXCEPT !.c = Append(@, c)])
    /\ UNCHANGED <<src, query, solved, cons>>
    /\ UNCHANGED <<apiVars, finderVars, runner>>

\* solve_api on the query parse returned
Solve ==
    /\ IsSome(query)
    /\ Unwrap(query).ok
    /\ ~IsSome(solved)
    /\ \E g \in {WikiTree, WikiCycle}, default_limit \in {-1} :
          solved' = Some([wiki |-> g, default_limit |-> default_limit,
                          result |-> solve_api(g, <<Unwrap(query).inst, Unwrap(query).fin>>,
                                               default_limit)])
    /\ UNCHANGED <<forest, src, query, cons>>
    /\ UNCHANGED <<apiVars, finderVars, runner>>



(***************************************************************************)
(* TaskRunner state (taskrunner.rs, pagewriter.rs, queryexecutor.rs)       *)
(***************************************************************************)

\* a task id without a runner; also the filler of the fields of a runner
AbsentRunner ==
    [pc |-> "absent",
     aligned_to_cron |-> FALSE,
     first |-> TRUE,                \* no iteration completed yet (history)
     ran |-> FALSE,                 \* PageWriter::start called in this iteration (history)
     task |-> [activate |-> FALSE, expr |-> None, cron |-> BadCron, timeout |-> None,
               querylimit |-> None, output |-> <<>>],
     global_activated |-> FALSE,
     task_config |-> [timeout |-> 0, querylimit |-> 0],
     denied_ns |-> {},
     output_header |-> "",
     \* PageWriter
     wpc |-> "w_net",               \* position inside PageWriter::start
     denied_namespace |-> None,
     idx |-> 1,                     \* position of the `for outputformat` loop, from 1
     \* QueryExecutor
     result |-> None,               \* QueryExecutor.result
     nreq |-> 0,                    \* requests issued by the running evaluation
     token |-> 0,                   \* csrf read for the edit being prepared
     hist |-> <<>>]                 \* events of this iteration (history)

\* tokio::spawn(async move { let mut aligned_to_cron = false; loop { .. } })
SpawnedRunner == [AbsentRunner EXCEPT !.pc = "start"]

(***************************************************************************)
(* TaskFinder (taskfinder.rs)                                              *)
(***************************************************************************)

NoConfig ==
    [activate |-> FALSE, denyns |-> {}, resultheader |-> "",
     default |-> [timeout |-> 0, querylimit |-> 0]]

NewCycle(map) == [cfg_ok |-> FALSE, list_ok |-> FALSE, pool |-> {}, map_at_start |-> map]

\* TaskFinder::new, TaskFinder::start
InitFinder ==
    /\ f_pc = "start"
    /\ f_config = NoConfig
    /\ f_cycle = NewCycle({})
    /\ global_activate = FALSE
    /\ global_query_config = [timeout |-> 0, querylimit |-> 0]
    /\ global_denied_namespace = {}
    /\ global_output_header = ""
    /\ task_map = {}

\* API_SERVICE.get_lock().lock().await;  the guard is a temporary of the
\* statement and is dropped at its end, before API_SERVICE.get is called
FinderConfigLock ==
    /\ f_pc = "start"
    /\ NetworkLockFree
    /\ network_lock' = None
    /\ f_pc' = "cfg_get"
    /\ f_cycle' = NewCycle(task_map)
    /\ UNCHANGED <<f_config, globalCells, task_map, wikiVars>>
    /\ UNCHANGED <<api, csrf, api_readers, api_writer, ka_pc>>
    /\ UNCHANGED <<compilerVars, runner>>

\* API_SERVICE.get: self.api.read().await, then NoAPI or the request
FinderConfigGet ==
    /\ f_pc = "cfg_get"
    /\ ApiReadFree
    /\ IF IsSome(api)
       THEN /\ api_readers' = api_readers \cup {Finder}
            /\ f_pc' = "cfg_wait"
       ELSE /\ f_pc' = "clamp"
            /\ UNCHANGED api_readers
    /\ UNCHANGED <<f_config, f_cycle, globalCells, task_map, wikiVars>>
    /\ UNCHANGED <<api, csrf, api_writer, network_lock, ka_pc>>
    /\ UNCHANGED <<compilerVars, runner>>

\* the response of the configuration read: a transport or server error, no
\* content, unparsable JSON (all Err(())), or a SiteConfig
FinderConfigResponse ==
    /\ f_pc = "cfg_wait"
    /\ api_readers' = api_readers \ {Finder}
    /\ \/ /\ f_pc' = "clamp"
          /\ UNCHANGED <<f_config, f_cycle>>
       \/ \E config \in SiteConfigChoices :
            /\ f_config' = config
            /\ f_cycle' = [f_cycle EXCEPT !.cfg_ok = TRUE]
            /\ f_pc' = "wr_activate"
    /\ UNCHANGED <<globalCells, task_map, wikiVars>>
    /\ UNCHANGED <<api, csrf, api_writer, network_lock, ka_pc>>
    /\ UNCHANGED <<compilerVars, runner>>

\* the four `update global params` blocks, one RwLock write each
FinderWriteActivate ==
    /\ f_pc = "wr_activate"
    /\ global_activate' = f_config.activate
    /\ f_pc' = "wr_query_config"
    /\ UNCHANGED <<f_config, f_cycle, global_query_config, global_denied_namespace,
                   global_output_header, task_map, wikiVars>>
    /\ UNCHANGED <<apiVars, compilerVars, runner>>

FinderWriteQueryConfig ==
    /\ f_pc = "wr_query_config"
    /\ global_query_config' = f_config.default
    /\ f_pc' = "wr_denied_namespace"
    /\ UNCHANGED <<f_config, f_cycle, global_activate, global_denied_namespace,
                   global_output_header, task_map, wikiVars>>
    /\ UNCHANGED <<apiVars, compilerVars, runner>>

FinderWriteDeniedNamespace ==
    /\ f_pc = "wr_denied_namespace"
    /\ global_denied_namespace' = f_config.denyns
    /\ f_pc' = "wr_output_header"
    /\ UNCHANGED <<f_config, f_cycle, global_activate, global_query_config,
                   global_output_header, task_map, wikiVars>>
    /\ UNCHANGED <<apiVars, compilerVars, runner>>

FinderWriteOutputHeader ==
    /\ f_pc = "wr_output_header"
    /\ global_output_header' = f_config.resultheader
    /\ f_pc' = "title"
    /\ UNCHANGED <<f_config, f_cycle, global_activate, global_query_config,
                   global_denied_namespace, task_map, wikiVars>>
    /\ UNCHANGED <<apiVars, compilerVars, runner>>

\* API_SERVICE.title_new_from_full(&config.taskdir).await.unwrap(), then the
\* network lock statement of the task list read.  api is Some here: it was
\* Some for the configuration read and is never reset to None.
FinderListLock ==
    /\ f_pc = "title"
    /\ ApiReadFree
    /\ IsSome(api)
    /\ NetworkLockFree
    /\ network_lock' = None
    /\ f_pc' = "list_get"
    /\ UNCHANGED <<f_config, f_cycle, globalCells, task_map, wikiVars>>
    /\ UNCHANGED <<api, csrf, api_readers, api_writer, ka_pc>>
    /\ UNCHANGED <<compilerVars, runner>>

\* API_SERVICE.get_all
FinderListGet ==
    /\ f_pc = "list_get"
    /\ ApiReadFree
    /\ IF IsSome(api)
       THEN /\ api_readers' = api_readers \cup {Finder}
            /\ f_pc' = "list_wait"
       ELSE /\ f_pc' = "clamp"
            /\ UNCHANGED api_readers
    /\ UNCHANGED <<f_config, f_cycle, globalCells, task_map, wikiVars>>
    /\ UNCHANGED <<api, csrf, api_writer, network_lock, ka_pc>>
    /\ UNCHANGED <<compilerVars, runner>>

\* the response of the task list read: an error, or the pages of the allpages
\* response as <<pageid, contentmodel>>; `gather all tasks` keeps the page ids
\* whose contentmodel is json
FinderListResponse ==
    /\ f_pc = "list_wait"
    /\ api_readers' = api_readers \ {Finder}
    /\ \/ /\ f_pc' = "clamp"
          /\ UNCHANGED f_cycle
       \/ \E tasks \in { {<<id, IF id \in json THEN "json" ELSE "wikitext">> : id \in pages} :
                           pages \in SUBSET wiki_ids, json \in SUBSET wiki_ids } :
            /\ f_cycle' = [f_cycle EXCEPT !.list_ok = TRUE, !.pool = {p[1] : p \in {q \in tasks : q[2] = "json"}}]
            /\ f_pc' = "update"
    /\ UNCHANGED <<f_config, globalCells, task_map, wikiVars>>
    /\ UNCHANGED <<api, csrf, api_writer, network_lock, ka_pc>>
    /\ UNCHANGED <<compilerVars, runner>>

\* variant: nothing is removed from the map
RetainAll(map, task_pool) == map
\* task_map.retain(|k, _| task_pool.contains(k))
Retain(map, task_pool) == {k \in map : k \in task_pool}

\* variant: a runner removed from the map is detached, not aborted
FinderUpdateMapDetaches ==
    /\ f_pc = "update"
    /\ task_map' = f_cycle.pool
    /\ runner' = [id \in TaskIds |->
                    IF id \in f_cycle.pool /\ id \notin task_map THEN SpawnedRunner
                    ELSE runner[id]]
    /\ f_pc' = "sleep"
    /\ f_config' = NoConfig
    /\ UNCHANGED <<f_cycle, globalCells, wikiVars>>
    /\ UNCHANGED <<api, csrf, api_readers, api_writer, network_lock, ka_pc>>
    /\ UNCHANGED compilerVars

\* variant: every runner of the catalog is started anew
FinderUpdateMapRestarts ==
    /\ f_pc = "update"
    /\ task_map' = f_cycle.pool
    /\ runner' = [id \in TaskIds |->
                    IF id \in f_cycle.pool THEN SpawnedRunner ELSE AbsentRunner]
    /\ api_readers' = api_readers \ task_map
    /\ f_pc' = "sleep"
    /\ f_config' = NoConfig
    /\ UNCHANGED <<f_cycle, globalCells, wikiVars>>
    /\ UNCHANGED <<api, csrf, api_writer, network_lock, ka_pc>>
    /\ UNCHANGED compilerVars

\* the block under task_map.lock(): dropped runners are aborted
\* (TaskRunner::drop -> stop -> handler.abort()), which also drops the api
\* read guard an aborted runner holds; new runners are spawned
FinderUpdateMap ==
    /\ f_pc = "update"
    /\ LET task_pool == f_cycle.pool
           kept == Retain(task_map, task_pool)
       IN \* for id in task_pool { task_map.entry(id).or_insert_with(..) }
          /\ task_map' = kept \cup task_pool
          /\ runner' = [id \in TaskIds |->
                          IF id \in task_map /\ id \notin kept THEN AbsentRunner
                          ELSE IF id \in task_pool /\ id \notin kept THEN SpawnedRunner
                          ELSE runner[id]]
          /\ api_readers' = api_readers \ (task_map \ kept)
    /\ f_pc' = "sleep"
    /\ f_config' = NoConfig
    /\ UNCHANGED <<f_cycle, globalCells, wikiVars>>
    /\ UNCHANGED <<api, csrf, api_writer, network_lock, ka_pc>>
    /\ UNCHANGED compilerVars

\* Drop for TaskFinder: stop() aborts the finder task, then task_map is
\* dropped and with it every TaskRunner (TaskRunner::drop -> stop ->
\* handler.abort()); the read guards of the aborted tasks go with them
FinderDrop ==
    /\ f_pc # "dropped"
    /\ f_pc' = "dropped"
    /\ task_map' = {}
    /\ runner' = [id \in TaskIds |-> AbsentRunner]
    /\ api_readers' = api_readers \ (TaskIds \cup {Finder})
    /\ UNCHANGED <<f_config, f_cycle, globalCells, wikiVars>>
    /\ UNCHANGED <<api, csrf, api_writer, network_lock, ka_pc>>
    /\ UNCHANGED compilerVars

\* Drop for APIService: stop() aborts the keep-alive task, whose write guard
\* is dropped with it.  The service is borrowed by the finder and the
\* runners for as long as they live, so it is dropped after them
GatewayDrop ==
    /\ f_pc = "dropped"
    /\ ka_pc # "stopped"
    /\ ka_pc' = "stopped"
    /\ api_writer' = IF api_writer = Some(KeepAlive) THEN None ELSE api_writer
    /\ UNCHANGED <<api, csrf, api_readers, network_lock>>
    /\ UNCHANGED <<compilerVars, finderVars, runner>>

\* variant: the flag is left as the cycle wrote it
ClampKeeps(activate) == activate
\* *global_active = false;
Clamp(activate) == FALSE

\* `we always set the global activated to false to prevent any accidents`
FinderClamp ==
    /\ f_pc = "clamp"
    /\ global_activate' = Clamp(global_activate)
    /\ f_pc' = "sleep"
    /\ f_config' = NoConfig
    /\ UNCHANGED <<f_cycle, global_query_config, global_denied_namespace,
                   global_output_header, task_map, wikiVars>>
    /\ UNCHANGED <<apiVars, compilerVars, runner>>

\* tokio::time::sleep(10 * 60) has elapsed
FinderWake ==
    /\ f_pc = "sleep"
    /\ f_pc' = "start"
    /\ UNCHANGED <<f_config, f_cycle, globalCells, task_map, wikiVars>>
    /\ UNCHANGED <<apiVars, compilerVars, runner>>

(***************************************************************************)
(* QueryExecutor and PageWriter helpers                                    *)
(***************************************************************************)

\* Result<Vec<Title>, QueryExecutorError>
ResultOk(titles) == [ok |-> TRUE, titles |-> titles, err |-> ""]
ResultErr(err) == [ok |-> FALSE, titles |-> <<>>, err |-> err]

\* Vec::from_iter(query_result) followed by sort_by; `less` is its comparison
\* closure (namespace id, then name)
RECURSIVE SortTitles(_)
SortTitles(set) ==
    IF set = {} THEN <<>>
    ELSE LET less(a, b) ==
                 \/ a.ns < b.ns
                 \/ (a.ns = b.ns /\ NameRank(a.name) < NameRank(b.name))
             least == CHOOSE t \in set : \A u \in set \ {t} : less(t, u)
         IN <<least>> \o SortTitles(set \ {least})

\* PageWriter::make_edit_summary
make_edit_summary(result) ==
    IF result.ok
    THEN CASE Len(result.titles) = 0 -> <<"Update query: empty">>
           [] Len(result.titles) = 1 -> <<"Update query: 1 result">>
           [] OTHER -> <<"Update query: ", ToString(Len(result.titles)), " results">>
    ELSE <<"Update query: failure">>

\* PageWriter::make_header_content
make_header_content(header_template_name, task_id, result) ==
    LET status_text ==
            IF result.ok THEN "success"
            ELSE CASE result.err = "Timeout" -> "timeout"
                   [] result.err = "Parse" -> "parse"
                   [] result.err = "Solve" -> "runtime"
    IN <<"<noinclude>{{subst:", header_template_name, "|taskid=", ToString(task_id),
         "|status=", status_text, "}}</noinclude>">>

\* Title::namespace_name for the namespaces used
NamespaceName(ns) ==
    CASE ns = 0 -> "" [] ns = 1 -> "Talk" [] ns = 2 -> "User" [] OTHER -> "Category"

\* PageWriter::substitute_str_template, from the i-th character on
RECURSIVE SubstituteFrom(_, _, _, _)
SubstituteFrom(template, i, escape, total_num) ==
    IF i > Len(template) THEN <<>>
    ELSE LET char == template[i] IN
         IF escape
         THEN (CASE char = "$" -> <<"$">>
                 [] char = "+" -> <<ToString(total_num)>>
                 [] OTHER -> <<"$", char>>)
              \o SubstituteFrom(template, i + 1, FALSE, total_num)
         ELSE IF char = "$" THEN SubstituteFrom(template, i + 1, TRUE, total_num)
         ELSE <<char>> \o SubstituteFrom(template, i + 1, FALSE, total_num)

substitute_str_template(template, total_num) == SubstituteFrom(template, 1, FALSE, total_num)

\* PageWriter::substitute_str_template_with_title, from the i-th character on
RECURSIVE SubstituteTitleFrom(_, _, _, _, _, _)
SubstituteTitleFrom(template, i, escape, t, current_num, total_num) ==
    IF i > Len(template) THEN <<>>
    ELSE LET char == template[i] IN
         IF escape
         THEN (CASE char = "$" -> <<"$">>
                 [] char = "0" -> \* Title::full_pretty
                                  IF t.ns = 0 THEN <<t.name>>
                                  ELSE <<NamespaceName(t.ns), ":", t.name>>
                 [] char = "1" -> <<NamespaceName(t.ns)>>
                 [] char = "2" -> <<t.name>>
                 [] char = "@" -> <<ToString(current_num)>>
                 [] char = "+" -> <<ToString(total_num)>>
                 [] OTHER -> <<"$", char>>)
              \o SubstituteTitleFrom(template, i + 1, FALSE, t, current_num, total_num)
         ELSE IF char = "$"
         THEN SubstituteTitleFrom(template, i + 1, TRUE, t, current_num, total_num)
         ELSE <<char>> \o SubstituteTitleFrom(template, i + 1, FALSE, t, current_num, total_num)

substitute_str_template_with_title(template, t, current_num, total_num) ==
    SubstituteTitleFrom(template, 1, FALSE, t, current_num, total_num)

\* join_all(items).await.join(between), from the idx-th title on
RECURSIVE JoinItems(_, _, _, _)
JoinItems(ls, idx, item, between) ==
    IF idx > Len(ls) THEN <<>>
    ELSE substitute_str_template_with_title(item, ls[idx], idx, Len(ls))
         \o (IF idx < Len(ls) THEN between ELSE <<>>)
         \o JoinItems(ls, idx + 1, item, between)

\* variant: the text after the list is left out
EditContentWithoutAfter(header_template_name, task_id, outputformat, result) ==
    make_header_content(header_template_name, task_id, result)
    \o (IF result.ok
        THEN IF Len(result.titles) <= 0 THEN outputformat.empty
             ELSE LET list_size == Len(result.titles) IN
                  substitute_str_template(outputformat.success.before, list_size)
                  \o JoinItems(result.titles, 1, outputformat.success.item,
                               substitute_str_template(outputformat.success.between, list_size))
        ELSE outputformat.failure)
\* the `content` of PageWriter::start
EditContent(header_template_name, task_id, outputformat, result) ==
    make_header_content(header_template_name, task_id, result)
    \o (IF result.ok
        THEN IF Len(result.titles) <= 0 THEN outputformat.empty
             ELSE LET list_size == Len(result.titles) IN
                  substitute_str_template(outputformat.success.before, list_size)
                  \o JoinItems(result.titles, 1, outputformat.success.item,
                               substitute_str_template(outputformat.success.between, list_size))
                  \o substitute_str_template(outputformat.success.after, list_size)
        ELSE outputformat.failure)

\* variant: the redirect test is missing from the chain
GuardrailVerdictWithoutRedirect(page_query, denied_namespace) ==
    IF ~page_query.ok THEN "cannot fetch"
    ELSE IF page_query.info.missing THEN "missing"
    ELSE IF IsSome(denied_namespace)
    THEN IF page_query.info.ns \in Unwrap(denied_namespace) THEN "denied" ELSE "nothing"
    ELSE "edit"
\* the if / else if chain of PageWriter::start after the prop=info read:
\* what happens to the output
GuardrailVerdict(page_query, denied_namespace) ==
    IF ~page_query.ok THEN "cannot fetch"
    ELSE IF page_query.info.missing THEN "missing"
    ELSE IF page_query.info.redirect THEN "redirect"
    ELSE IF IsSome(denied_namespace)
    THEN IF page_query.info.ns \in Unwrap(denied_namespace) THEN "denied" ELSE "nothing"
    ELSE "edit"

\* history events of one runner iteration
Event(kind, args) == <<kind>> \o args

(***************************************************************************)
(* TaskRunner::start (taskrunner.rs)                                       *)
(***************************************************************************)

\* what a runner step leaves alone besides runner, api_readers, network_lock
RunnerFrame == UNCHANGED <<api, csrf, api_writer, ka_pc, compilerVars, finderVars>>

SetRunner(r, rec) == runner' = [runner EXCEPT ![r] = rec]

\* variant: the loop ends when the task cannot be fetched
AfterFetchFailureEnds(rr) == AbsentRunner
\* variant: the alignment survives the failure
AfterFetchFailureKeepsAlignment(rr) ==
    [SpawnedRunner EXCEPT !.aligned_to_cron = rr.aligned_to_cron, !.first = FALSE,
                          !.pc = "backoff"]
\* where the runner goes when the task fetch fails (aligned_to_cron = false;
\* sleep 10 minutes)
AfterFetchFailure(rr) ==
    [SpawnedRunner EXCEPT !.aligned_to_cron = FALSE, !.first = FALSE, !.pc = "backoff"]

\* API_SERVICE.get_lock().lock().await;  of the task fetch
RunnerNetworkLock(r) ==
    /\ runner[r].pc = "start"
    /\ NetworkLockFree
    /\ network_lock' = None
    /\ SetRunner(r, [runner[r] EXCEPT !.pc = "fetch_get"])
    /\ UNCHANGED api_readers
    /\ RunnerFrame

\* API_SERVICE.get(&params): self.api.read().await, then NoAPI or the request
RunnerFetchGet(r) ==
    /\ runner[r].pc = "fetch_get"
    /\ ApiReadFree
    /\ IF IsSome(api)
       THEN /\ api_readers' = api_readers \cup {r}
            /\ SetRunner(r, [runner[r] EXCEPT !.pc = "fetch_wait"])
       ELSE /\ SetRunner(r, AfterFetchFailure(runner[r]))
            /\ UNCHANGED api_readers
    /\ UNCHANGED network_lock
    /\ RunnerFrame

\* the response of the task fetch: Err(()) for a transport or server error,
\* missing content or unparsable JSON, or the TaskInfo
RunnerFetchResponse(r) ==
    /\ runner[r].pc = "fetch_wait"
    /\ api_readers' = api_readers \ {r}
    /\ \/ SetRunner(r, AfterFetchFailure(runner[r]))
       \/ \E task \in TaskInfoChoices :
            SetRunner(r, [runner[r] EXCEPT !.task = task, !.pc = "check"])
    /\ UNCHANGED network_lock
    /\ RunnerFrame

\* variant: the alignment to cron is not part of the condition
ShouldRunUnaligned(global_activated, task, aligned_to_cron) ==
    global_activated /\ task.activate
\* the condition of `if global_activated && task.activate && aligned_to_cron`
ShouldRun(global_activated, task, aligned_to_cron) ==
    global_activated /\ task.activate /\ aligned_to_cron

\* let global_activated = *global_activate.read().await;  and the test
RunnerCheck(r) ==
    /\ runner[r].pc = "check"
    /\ SetRunner(r, [runner[r] EXCEPT
            !.global_activated = global_activate,
            !.pc = IF ShouldRun(global_activate, runner[r].task, runner[r].aligned_to_cron)
                   THEN "rd_query_config" ELSE "cron"])
    /\ UNCHANGED <<api_readers, network_lock>>
    /\ RunnerFrame


\* let task_config = { global_query_config.read().await .. }
RunnerReadQueryConfig(r) ==
    /\ runner[r].pc = "rd_query_config"
    /\ SetRunner(r, [runner[r] EXCEPT
            !.task_config =
                [timeout |-> UnwrapOr(runner[r].task.timeout, global_query_config.timeout),
                 querylimit |-> UnwrapOr(runner[r].task.querylimit,
                                         global_query_config.querylimit)],
            !.pc = "rd_denied_namespace"])
    /\ UNCHANGED <<api_readers, network_lock>>
    /\ RunnerFrame

\* let denied_ns = { global_denied_namespace.read().await .. }
RunnerReadDeniedNamespace(r) ==
    /\ runner[r].pc = "rd_denied_namespace"
    /\ SetRunner(r, [runner[r] EXCEPT !.denied_ns = global_denied_namespace,
                                      !.pc = "rd_output_header"])
    /\ UNCHANGED <<api_readers, network_lock>>
    /\ RunnerFrame

\* variant: the query is executed before the first output is looked at
NewWriterEager(rr, output_header) ==
    [rr EXCEPT !.output_header = output_header,
               !.denied_namespace = Some(rr.denied_ns),
               !.result = None,
               !.idx = 1,
               !.wpc = "x_begin",
               !.ran = TRUE,
               !.pc = "writer"]
\* PageWriter::new(QueryExecutor::new(..)) and the builder calls
NewWriter(rr, output_header) ==
    [rr EXCEPT !.output_header = output_header,
               !.denied_namespace = Some(rr.denied_ns),
               !.result = None,
               !.idx = 1,
               !.wpc = "w_net",
               !.ran = TRUE,
               !.pc = "writer"]

\* let output_header = { global_output_header.read().await .. }; the writer
\* is built and writer.start() is entered
RunnerReadOutputHeader(r) ==
    /\ runner[r].pc = "rd_output_header"
    /\ SetRunner(r, NewWriter(runner[r], global_output_header))
    /\ UNCHANGED <<api_readers, network_lock>>
    /\ RunnerFrame

\* cron::Schedule::from_str(&task.cron) and the two sleeps; the locals of the
\* iteration play no part after this point
RunnerCron(r) ==
    /\ runner[r].pc = "cron"
    /\ SetRunner(r, IF runner[r].task.cron = GoodCron
                    THEN [SpawnedRunner EXCEPT !.aligned_to_cron = TRUE, !.first = FALSE,
                                               !.pc = "sleep"]
                    ELSE [SpawnedRunner EXCEPT !.aligned_to_cron = FALSE, !.first = FALSE,
                                               !.pc = "backoff"])
    /\ UNCHANGED <<api_readers, network_lock>>
    /\ RunnerFrame

\* the sleep has elapsed
RunnerWake(r) ==
    /\ runner[r].pc \in {"sleep", "backoff"}
    /\ SetRunner(r, [runner[r] EXCEPT !.pc = "start"])
    /\ UNCHANGED <<api_readers, network_lock>>
    /\ RunnerFrame

(***************************************************************************)
(* PageWriter::start (pagewriter.rs) and QueryExecutor::execute            *)
(* (queryexecutor.rs), one step per await                                  *)
(***************************************************************************)

Log(rr, event) == [rr EXCEPT !.hist = Append(@, event)]

\* variant: the executor forgets its result between two outputs
NextOutputForgets(rr) == [rr EXCEPT !.idx = @ + 1, !.wpc = "w_net", !.result = None]
\* the end of the body of `for outputformat in self.outputformat`
NextOutput(rr) == [rr EXCEPT !.idx = @ + 1, !.wpc = "w_net"]

\* self.result = Some(..) of execute(), and the return to PageWriter::start
SetResult(rr, result) ==
    [Log(rr, Event("result", <<result>>)) EXCEPT !.result = Some(result), !.wpc = "w_csrf"]

\* variant: what the evaluation had gathered is kept as its result
TimedOutKeepsPartial(rr) == SetResult(Log(rr, Event("timeout", <<>>)), ResultOk(<<>>))
\* the Err(_) arm of the match on the outcome of tokio::time::timeout
TimedOut(rr) == SetResult(Log(rr, Event("timeout", <<>>)), ResultErr("Timeout"))

\* the if / else if chain on page_query
AfterGuardrail(rr, page_query) ==
    LET logged == Log(rr, Event("guardrail", <<rr.idx, page_query>>)) IN
    IF GuardrailVerdict(page_query, rr.denied_namespace) = "edit"
    THEN [logged EXCEPT !.wpc = "x_begin"]
    ELSE NextOutput(logged)

\* the params of the action=edit request of the output in progress
CurrentEdit(r, rr) ==
    LET outputformat == rr.task.output[rr.idx]
        result == Unwrap(rr.result)
    IN [title |-> outputformat.target,
        text |-> EditContent(rr.output_header, r, outputformat, result),
        summary |-> make_edit_summary(result),
        token |-> rr.token]

PageWriterStart(r) ==
    LET rr == runner[r] IN
    /\ rr.pc = "writer"
    /\ CASE rr.wpc = "w_net" ->
              \* loop head, then API_SERVICE.get_lock().lock().await; of the prop=info read
              IF rr.idx > Len(rr.task.output)
              THEN /\ SetRunner(r, [rr EXCEPT !.pc = "cron"])
                   /\ UNCHANGED <<api_readers, network_lock>>
              ELSE /\ NetworkLockFree
                   /\ network_lock' = None
                   /\ SetRunner(r, [rr EXCEPT !.wpc = "w_get"])
                   /\ UNCHANGED api_readers
         [] rr.wpc = "w_get" ->
              \* API_SERVICE.get(&params) of the prop=info read
              /\ ApiReadFree
              /\ IF IsSome(api)
                 THEN /\ api_readers' = api_readers \cup {r}
                      /\ SetRunner(r, [rr EXCEPT !.wpc = "w_wait"])
                 ELSE /\ SetRunner(r, AfterGuardrail(rr, PageQueryErr))
                      /\ UNCHANGED api_readers
              /\ UNCHANGED network_lock
         [] rr.wpc = "w_wait" ->
              \* the response of the prop=info read
              /\ api_readers' = api_readers \ {r}
              /\ \E page_query \in wiki_pages : SetRunner(r, AfterGuardrail(rr, page_query))
              /\ UNCHANGED network_lock
         [] rr.wpc = "x_begin" ->
              \* QueryExecutor::execute up to the solve: the cached result, or parse
              /\ IF IsSome(rr.result)
                 THEN SetRunner(r, [rr EXCEPT !.wpc = "w_csrf"])
                 ELSE IF ~parse(rr.task.expr).ok
                 THEN SetRunner(r, SetResult(Log(rr, Event("compile", <<>>)), ResultErr("Parse")))
                 ELSE SetRunner(r, [Log(rr, Event("compile", <<>>)) EXCEPT !.wpc = "x_net"])
              /\ UNCHANGED <<api_readers, network_lock>>
         [] rr.wpc = "x_net" ->
              \* API_SERVICE.get_lock().lock().await; in front of timeout(.., solve_api(..))
              /\ NetworkLockFree
              /\ network_lock' = None
              /\ SetRunner(r, [Log(rr, Event("evaluate", <<>>)) EXCEPT !.wpc = "x_solve", !.nreq = 0])
              /\ UNCHANGED api_readers
         [] rr.wpc = "x_solve" ->
              \* timeout(.., solve_api(..)) between requests: the timeout fires, solve_api
              \* returns, or solve_api issues its next request (API_SERVICE.get_limit)
              /\ \/ /\ SetRunner(r, TimedOut(rr))
                    /\ UNCHANGED api_readers
                 \/ /\ SetRunner(r, SetResult(rr, ResultErr("Solve")))
                    /\ UNCHANGED api_readers
                 \/ /\ \E set \in { {}, {Title(0, "P")}, {Title(1, "P"), Title(0, "Q"), Title(0, "P")} } : SetRunner(r, SetResult(rr, ResultOk(SortTitles(set))))
                    /\ UNCHANGED api_readers
                 \/ /\ rr.nreq < MaxRequests
                    /\ ApiReadFree
                    /\ IF IsSome(api)
                       THEN /\ api_readers' = api_readers \cup {r}
                            /\ SetRunner(r, [rr EXCEPT !.nreq = @ + 1, !.wpc = "x_req"])
                       ELSE /\ SetRunner(r, SetResult(rr, ResultErr("Solve")))
                            /\ UNCHANGED api_readers
              /\ UNCHANGED network_lock
         [] rr.wpc = "x_req" ->
              \* a request of solve_api is in flight: the timeout fires (the future and its
              \* read guard are dropped), or the response arrives
              /\ api_readers' = api_readers \ {r}
              /\ \/ SetRunner(r, TimedOut(rr))
                 \/ SetRunner(r, SetResult(rr, ResultErr("Solve")))
                 \/ SetRunner(r, [rr EXCEPT !.wpc = "x_solve"])
              /\ UNCHANGED network_lock
         [] rr.wpc = "w_csrf" ->
              \* the params of the edit are built: "token" => API_SERVICE.csrf().await
              /\ SetRunner(r, [rr EXCEPT !.token = csrf, !.wpc = "w_enet"])
              /\ UNCHANGED <<api_readers, network_lock>>
         [] rr.wpc = "w_enet" ->
              \* API_SERVICE.get_lock().lock().await; of the edit
              /\ NetworkLockFree
              /\ network_lock' = None
              /\ SetRunner(r, [rr EXCEPT !.wpc = "w_post"])
              /\ UNCHANGED api_readers
         [] rr.wpc = "w_post" ->
              \* API_SERVICE.post_edit(&params): self.api.read().await, NoAPI or the request
              /\ ApiReadFree
              /\ IF IsSome(api)
                 THEN /\ api_readers' = api_readers \cup {r}
                      /\ SetRunner(r, [Log(rr, Event("edit", <<rr.idx, CurrentEdit(r, rr)>>)) EXCEPT !.wpc = "w_pwait"])
                 ELSE /\ SetRunner(r, NextOutput(rr))
                      /\ UNCHANGED api_readers
              /\ UNCHANGED network_lock
         [] rr.wpc = "w_pwait" ->
              \* the response of the edit; an error is logged and dropped
              /\ api_readers' = api_readers \ {r}
              /\ SetRunner(r, NextOutput(rr))
              /\ UNCHANGED network_lock
    /\ RunnerFrame

(***************************************************************************)
(* The program                                                             *)
(***************************************************************************)

InitRunners == runner = [id \in TaskIds |-> AbsentRunner]

\* the bot after main has built its services, facing a wiki whose task
\* directory can hold one task page, of any of the descriptors, and whose
\* target pages can be in any condition
Init ==
    /\ InitCompiler
    /\ InitApi
    /\ InitFinder
    /\ InitRunners
    /\ wiki_ids = TaskIds
    /\ wiki_tasks = TaskInfoChoices
    /\ wiki_pages = PageQueryChoices

Next ==
    \/ KaTick
    \/ KaNetworkLock
    \/ KaWriteLock
    \/ KaCheck
    \/ KaRelogin
    \/ KaInit
    \/ FinderConfigLock
    \/ FinderConfigGet
    \/ FinderConfigResponse
    \/ FinderWriteActivate
    \/ FinderWriteQueryConfig
    \/ FinderWriteDeniedNamespace
    \/ FinderWriteOutputHeader
    \/ FinderListLock
    \/ FinderListGet
    \/ FinderListResponse
    \/ FinderUpdateMap
    \/ FinderClamp
    \/ FinderWake
    \/ \E r \in TaskIds : RunnerNetworkLock(r)
    \/ \E r \in TaskIds : RunnerFetchGet(r)
    \/ \E r \in TaskIds : RunnerFetchResponse(r)
    \/ \E r \in TaskIds : RunnerCheck(r)
    \/ \E r \in TaskIds : RunnerReadQueryConfig(r)
    \/ \E r \in TaskIds : RunnerReadDeniedNamespace(r)
    \/ \E r \in TaskIds : RunnerReadOutputHeader(r)
    \/ \E r \in TaskIds : PageWriterStart(r)
    \/ \E r \in TaskIds : RunnerCron(r)
    \/ \E r \in TaskIds : RunnerWake(r)

Spec == Init /\ [][Next]_vars

\* the steps of the runner of task r
RunnerStep(r) ==
    \/ RunnerNetworkLock(r)
    \/ RunnerFetchGet(r)
    \/ RunnerFetchResponse(r)
    \/ RunnerCheck(r)
    \/ RunnerReadQueryConfig(r)
    \/ RunnerReadDeniedNamespace(r)
    \/ RunnerReadOutputHeader(r)
    \/ PageWriterStart(r)
    \/ RunnerCron(r)
    \/ RunnerWake(r)

KeepAliveStep == KaTick \/ KaNetworkLock \/ KaWriteLock \/ KaCheck \/ KaRelogin \/ KaInit

\* the steps of the finder task
FinderStep ==
    \/ FinderConfigLock
    \/ FinderConfigGet
    \/ FinderConfigResponse
    \/ FinderWriteActivate
    \/ FinderWriteQueryConfig
    \/ FinderWriteDeniedNamespace
    \/ FinderWriteOutputHeader
    \/ FinderListLock
    \/ FinderListGet
    \/ FinderListResponse
    \/ FinderUpdateMap
    \/ FinderClamp
    \/ FinderWake

\* the bot facing a wiki whose task page holds a well-formed expression and
\* whose target pages exist or cannot be read
InitFair ==
    /\ InitCompiler
    /\ InitApi
    /\ InitFinder
    /\ InitRunners
    /\ wiki_ids = TaskIds
    /\ wiki_tasks = {[t EXCEPT !.output = <<OutputFormatOf(1)>>] :
                        t \in TaskInfoOver({LiteralExpr})}
    /\ wiki_pages = {PageQueryErr, PageQueryOk(NoInfo)}

\* tokio polls every task that can run, its locks are granted in arrival
\* order, requests are answered or fail, and sleeps elapse: a runner or the
\* finder that can step again and again does step, and the keep-alive task,
\* which holds the session write lock across its requests, finishes its pass
FairSpec ==
    /\ InitFair /\ [][Next]_vars
    /\ \A r \in TaskIds : SF_vars(RunnerStep(r))
    /\ SF_vars(FinderStep)
    /\ WF_vars(KeepAliveStep)

\* descriptors a PageWriter can be built for; link(page("A")).depth(1) is
\* rejected by to_ir
WriterTaskChoices ==
    LET SemanticErrorExpr ==
            Some(ExprConstrained(ExprUnary("Link", ExprPage(<<"A">>)), << <<"Depth", 1>> >>))
    IN {t \in TaskInfoOver({IllFormedExpr, LiteralExpr, SemanticErrorExpr}) :
           t.activate /\ t.cron = GoodCron}

\* a PageWriter as PageWriter::new and the builder calls can make it, with or
\* without set_denied_namespace, at the call of start()
InitWriter ==
    /\ InitCompiler
    /\ InitApi
    /\ InitFinder
    /\ wiki_ids = TaskIds
    /\ wiki_tasks = WriterTaskChoices
    /\ wiki_pages = PageQueryChoices
    /\ \E task \in WriterTaskChoices, denied_ns \in {{}, {2}}, given \in BOOLEAN :
          runner = [id \in TaskIds |->
                      IF id = 1
                      THEN [NewWriter([SpawnedRunner EXCEPT !.task = task,
                                                            !.first = FALSE,
                                                            !.aligned_to_cron = TRUE,
                                                            !.global_activated = TRUE,
                                                            !.denied_ns = denied_ns], "H")
                              EXCEPT !.denied_namespace =
                                        IF given THEN Some(denied_ns) ELSE None]
                      ELSE AbsentRunner]

NextWriter ==
    \/ KaTick
    \/ KaNetworkLock
    \/ KaWriteLock
    \/ KaCheck
    \/ KaRelogin
    \/ KaInit
    \/ \E r \in TaskIds : PageWriterStart(r)

\* PageWriter::start alone, next to the keep-alive task
SpecWriter == InitWriter /\ [][NextWriter]_vars

\* the bot until its services are dropped
SpecShutdown == Init /\ [][Next \/ FinderDrop \/ GatewayDrop]_vars

\* the gateway with all its operations: requests of PageWriter::start, the
\* keep-alive task of start(), and try_init called at any time
SpecGateway == InitWriter /\ [][NextWriter \/ TryInit]_vars

\* the compiler alone: parse applied to every small expression
SpecCompiler ==
    Init /\ [][PushPage
              \/ WrapUnary
              \/ WrapConstrained
              \/ AddConstraint
              \/ CombineBinary
              \/ Compile
              \/ CompileIllFormed]_vars

\* the compiler followed by the solver over a wiki
SpecSolver ==
    Init /\ [][PushSeed
              \/ WrapUnary
              \/ WrapConstrained
              \/ AddSolverConstraint
              \/ CombineBinary
              \/ Compile
              \/ Solve]_vars

(***************************************************************************)
(* Constraint harness: construct_constraints_from_vec and                  *)
(* merge_constraints applied to two constraint lists                       *)
(***************************************************************************)

MaxConstraints == 2

\* two constraint lists of one expression, as the grammar can hand them to
\* to_ir: `orig` of up to MaxConstraints and `other` of up to two
\* constraints
InitConstraints ==
    LET ConstraintChoices ==
            { <<"Ns", <<0>> >>, <<"Ns", <<0, 1>> >>,
              <<"Depth", -1>>, <<"Depth", -2>>, <<"Depth", 1>>,
              <<"Redir", "All">>, <<"Redir", "NoRedirect">>,
              <<"DirectLink", TRUE>>, <<"DirectLink", FALSE>>,
              <<"ResolveRedir", TRUE>>, <<"ResolveRedir", FALSE>>,
              <<"Limit", -1>>, <<"Limit", 1>>, <<"Limit", 2>> }
        ListsUpTo(n) == UNION {[1..k -> ConstraintChoices] : k \in 0..n}
    IN /\ forest = <<>>
       /\ src = None
       /\ query = None
       /\ solved = None
       /\ cons \in {[orig |-> a, other |-> b, made |-> None] :
                       a \in ListsUpTo(MaxConstraints), b \in ListsUpTo(2)}
       /\ InitApi
       /\ InitFinder
       /\ InitRunners
       /\ wiki_ids = TaskIds
       /\ wiki_tasks = TaskInfoChoices
       /\ wiki_pages = PageQueryChoices

\* the Constrained arm of ir_helper as far as the constraints go:
\* construct_constraints_from_vec on each list (and on the two lists written
\* as one), then merge_constraints of the two results
MergeConstraints ==
    /\ ~IsSome(cons.made)
    /\ LET a == construct_constraints_from_vec(cons.orig)
           b == construct_constraints_from_vec(cons.other)
       IN cons' = [cons EXCEPT !.made =
                     Some([a |-> a, b |-> b,
                           joint |-> construct_constraints_from_vec(cons.orig \o cons.other),
                           merged |-> IF a.ok /\ b.ok
                                      THEN Some(merge_constraints(a.cs, b.cs))
                                      ELSE None])]
    /\ UNCHANGED <<forest, src, query, solved>>
    /\ UNCHANGED <<apiVars, finderVars, runner>>

\* the two constraint functions alone
SpecConstraints == InitConstraints /\ [][MergeConstraints]_vars

(***************************************************************************)
(* Properties of the page writer and the runner (SpecWriter, Spec)         *)
(***************************************************************************)

Hist(r) == runner[r].hist
Positions(h, kind) == {j \in 1..Len(h) : h[j][1] = kind}
\* positions of the events of one kind that concern the idx-th output
PositionsOf(h, kind, idx) == {j \in Positions(h, kind) : h[j][2] = idx}

\* the page of a guardrail response exists and is not a redirect
Editable(page_query) ==
    page_query.ok /\ ~page_query.info.missing /\ ~page_query.info.redirect

\* C1: the page writer never submits an edit for a target whose prop=info
\* response marks it missing or redirect, or whose namespace is in the denied
\* set the writer was given, whatever the outcome of the query.
C1_NoEditOfGuardedPage ==
    \A r \in TaskIds :
        \A j \in Positions(Hist(r), "edit") :
            \E g \in PositionsOf(Hist(r), "guardrail", Hist(r)[j][2]) :
                /\ g < j
                /\ Editable(Hist(r)[g][3])
                /\ IsSome(runner[r].denied_namespace) =>
                      Hist(r)[g][3].info.ns \notin Unwrap(runner[r].denied_namespace)

\* one output was skipped as missing or redirect, another one was edited
C1_Witness ==
    \E r \in TaskIds :
        /\ Positions(Hist(r), "edit") # {}
        /\ \E g \in Positions(Hist(r), "guardrail") :
              /\ Hist(r)[g][3].ok
              /\ Hist(r)[g][3].info.missing \/ Hist(r)[g][3].info.redirect
              /\ runner[r].idx > Hist(r)[g][2]

\* the output's page exists, is no redirect and is outside the runner's
\* denied namespaces
Eligible(r, idx) ==
    \E g \in PositionsOf(Hist(r), "guardrail", idx) :
        /\ Editable(Hist(r)[g][3])
        /\ Hist(r)[g][3].info.ns \notin runner[r].denied_ns

\* C2: in every iteration that executes, each output whose target exists, is
\* not a redirect and is not in a denied namespace has received exactly one
\* edit submission when the writer returns.
C2_EligibleOutputEditedOnce ==
    \A r \in TaskIds :
        (runner[r].pc = "cron" /\ runner[r].ran) =>
            \A idx \in 1..Len(runner[r].task.output) :
                Eligible(r, idx) =>
                    Cardinality(PositionsOf(Hist(r), "edit", idx)) = 1

\* C3: at no time are two batches of API work of different tasks in flight
\* at once.
C3_OneBatchInFlight ==
    Cardinality(api_readers) + (IF IsSome(api_writer) THEN 1 ELSE 0) <= 1

\* C4: the first iteration of a runner never executes the task; a later
\* iteration executes iff the activate flag it read is true, the descriptor
\* it fetched has activate = true, and the runner is aligned to cron.
C4_ExecutesIffActiveAndAligned ==
    \A r \in TaskIds :
        /\ runner[r].first => (~runner[r].ran /\ Hist(r) = <<>>)
        /\ ~runner[r].ran => Hist(r) = <<>>
        /\ runner[r].pc = "cron" =>
              (runner[r].ran <=>
                  /\ runner[r].global_activated
                  /\ runner[r].task.activate
                  /\ runner[r].aligned_to_cron)

\* a later iteration has executed
C4_Witness ==
    \E r \in TaskIds :
        /\ runner[r].pc = "cron"
        /\ ~runner[r].first
        /\ runner[r].ran
        /\ Positions(Hist(r), "guardrail") # {}

(***************************************************************************)
(* Properties of the finder (Spec)                                         *)
(***************************************************************************)

CycleSucceeded == f_cycle.cfg_ok /\ f_cycle.list_ok
Alive(id) == runner[id].pc # "absent"

C6_FailureClampsAndKeepsMap ==
    (f_pc = "sleep" /\ ~CycleSucceeded) =>
        /\ global_activate = FALSE
        /\ task_map = f_cycle.map_at_start
        /\ \A id \in TaskIds : Alive(id) <=> id \in f_cycle.map_at_start
        /\ ENABLED FinderWake

\* the task list fetch failed after a configuration was read, with a runner
\* in the map
C6_Witness ==
    /\ f_pc = "sleep"
    /\ f_cycle.cfg_ok
    /\ ~f_cycle.list_ok
    /\ task_map = {1}
    /\ global_output_header = "H"

(***************************************************************************)
(* Properties of the runner loop (FairSpec)                                *)
(***************************************************************************)

Asleep(r) == runner[r].pc \in {"sleep", "backoff"}

Before(h, kind, j) == {k \in Positions(h, kind) : k < j}

EditText(h, j) == h[j][3].text

C9_TimeoutDuringEvaluation(r) ==
    \A j \in Positions(Hist(r), "timeout") :
        /\ Before(Hist(r), "evaluate", j) # {}
        /\ Before(Hist(r), "result", j) = {}
        /\ j < Len(Hist(r))
        /\ Hist(r)[j + 1] = <<"result", ResultErr("Timeout")>>

C9_TimeoutWritesFailureText(r) ==
    \A j \in Positions(Hist(r), "edit") :
        Positions(Hist(r), "timeout") # {} =>
            EditText(Hist(r), j) =
                <<"<noinclude>{{subst:", runner[r].output_header, "|taskid=", ToString(r),
                  "|status=", "timeout", "}}</noinclude>">>
                \o runner[r].task.output[Hist(r)[j][2]].failure

\* C9: the timeout fires only while the query is evaluated, its outcome is
\* Timeout, every edit after it carries the timeout marker and the failure
\* text and no title, and a guardrail read or an edit in flight ends with its
\* response and leaves the result as it is.
C9_TimeoutBoundsEvaluationOnly ==
    /\ [](\A r \in TaskIds : C9_TimeoutDuringEvaluation(r) /\ C9_TimeoutWritesFailureText(r))
    /\ [][\A r \in TaskIds :
            (runner[r].wpc \in {"w_wait", "w_pwait"} /\ runner'[r] # runner[r]) =>
                /\ runner'[r].result = runner[r].result
                /\ r \in api_readers /\ r \notin api_readers'
                /\ Positions(runner'[r].hist, "timeout") = Positions(Hist(r), "timeout")]_vars

\* the timeout fired while a request of the evaluation was in flight, and an
\* output has been written since
C9_Witness ==
    \E r \in TaskIds :
        /\ Positions(Hist(r), "timeout") # {}
        /\ runner[r].nreq > 0
        /\ Positions(Hist(r), "edit") # {}

(***************************************************************************)
(* Properties of the compiler (SpecCompiler)                               *)
(***************************************************************************)

Compiled == IsSome(query) /\ Unwrap(query).ok
IR == Unwrap(query).inst

NoPanic == IsSome(query) => Unwrap(query).err # "panic"

SourcesOk(ir, i) ==
    LET inst == ir[i] IN
    /\ inst.kind \in BinaryKinds \cup UnaryKinds \cup {"Nop"} =>
          /\ inst.op1 < inst.dest
          /\ \E j \in 1..(i - 1) : ir[j].dest = inst.op1
    /\ inst.kind \in BinaryKinds =>
          /\ inst.op2 < inst.dest
          /\ \E j \in 1..(i - 1) : ir[j].dest = inst.op2

\* C10: in every query returned by parse, each binary and unary instruction's
\* source registers are smaller than its dest and are the dest of an earlier
\* instruction, and the sequence is strictly ascending by dest.
C10_OperandsAndOrder ==
    Compiled =>
        /\ \A i \in 1..Len(IR) : SourcesOk(IR, i)
        /\ \A i \in 1..(Len(IR) - 1) : IR[i].dest < IR[i + 1].dest

\* remove_nop has removed an instruction under a binary operation
C10_Witness ==
    /\ Compiled
    /\ Len(IR) < Len(to_ir(Unwrap(src)).inst)
    /\ \E i \in 1..Len(IR) : IR[i].kind \in BinaryKinds

(***************************************************************************)
(* Optimizer output (SpecCompiler)                                         *)
(***************************************************************************)

\* the instructions to_ir emits for src, after remove_redundent_talk, and as
\* they are handed to remove_nop; the three have the same length and dests
Emitted == to_ir(Unwrap(src)).inst
Untoggled == remove_redundent_talk(Emitted)
PreElision == remove_empty_ns(Untoggled)
KindCount(ir, kinds) == Cardinality({i \in 1..Len(ir) : ir[i].kind \in kinds})

\* C11: no Nop instruction remains in a query returned by parse, whether the
\* Nops came from toggle pairs, from empty-namespace pruning, or from both
C11_NoNopRemains == Compiled => KindCount(IR, {"Nop"}) = 0

\* a compiled expression with a rewritten toggle pair and an explicitly empty
\* ns, so that remove_nop was handed Nops
C11_Witness ==
    /\ Compiled
    /\ \E i \in 1..Len(Emitted) : Emitted[i].kind = "Toggle" /\ Untoggled[i].kind = "Nop"
    /\ \E i \in 1..Len(Emitted) : ns_empty(Emitted[i])
    /\ KindCount(PreElision, {"Nop"}) >= 2

\* C12: in a compiled query no Toggle reads the register another Toggle
\* writes; the number of Toggle instructions left is, chain by chain, the
\* chain length modulo 2 (fewer only where empty-namespace pruning removed a
\* subtree); toggle(toggle(incat(page(..)))) compiles to a Set and an InCat
C12_NoDoubleToggle ==
    Compiled =>
        LET RECURSIVE Residual(_, _)
            \* Toggles due for the subtree e below n directly nested toggles
            Residual(e, n) ==
                CASE e.k = "Page" -> n % 2
                  [] e.k = "Constrained" -> Residual(Unwrap(e.l), n)
                  [] e.k = "Unary" /\ e.op = "Toggle" -> Residual(Unwrap(e.l), n + 1)
                  [] e.k = "Unary" /\ e.op # "Toggle" -> (n % 2) + Residual(Unwrap(e.l), 0)
                  [] e.k = "Binary" ->
                        (n % 2) + Residual(Unwrap(e.l), 0) + Residual(Unwrap(e.r), 0)
            e0 == Unwrap(src)
            pruned == \E i \in 1..Len(Emitted) : ns_empty(Emitted[i])
        IN /\ \A i, j \in 1..Len(IR) :
                IR[i].kind = "Toggle" /\ IR[j].kind = "Toggle" => IR[i].op1 # IR[j].dest
           /\ KindCount(IR, {"Toggle"}) <= Residual(e0, 0)
           /\ ~pruned => KindCount(IR, {"Toggle"}) = Residual(e0, 0)
           /\ (\E t \in {<<"A">>, <<"A", "B">>} :
                  e0 = ExprUnary("Toggle", ExprUnary("Toggle", ExprUnary("InCategory", ExprPage(t)))))
              => [i \in 1..Len(IR) |-> IR[i].kind] = <<"Set", "InCat">>

\* toggle(toggle(incat(page("A")))) has been compiled
C12_Witness ==
    /\ Compiled
    /\ Unwrap(src) = ExprUnary("Toggle", ExprUnary("Toggle", ExprUnary("InCategory", ExprPage(<<"A">>))))
    /\ Len(IR) = 2

(***************************************************************************)
(* Evaluation (SpecSolver)                                                 *)
(***************************************************************************)

Solved == Compiled /\ IsSome(solved)
Wiki == Unwrap(solved).wiki
Result == Unwrap(solved).result
\* solve_api on another query, with the wiki and limit of the recorded run
Eval(ir, fin) == solve_api(Wiki, <<ir, fin>>, Unwrap(solved).default_limit)
\* the compilation and evaluation of another expression
EvalExpr(e) ==
    LET q == parse(Some(e))
    IN IF q.ok THEN Eval(q.inst, q.fin) ELSE [ok |-> FALSE, err |-> q.err, set |-> {}, reg |-> <<>>, reqs |-> <<>>]
\* the evaluation of the instructions to_ir emitted, without the optimizer
Plain == Eval(Emitted, to_ir(Unwrap(src)).fin)

\* indexes of the instructions of the subtree of ir rooted at index i
RECURSIVE Subtree(_, _)
Subtree(ir, i) ==
    LET at(d) == CHOOSE k \in 1..Len(ir) : ir[k].dest = d
    IN {i} \cup (IF ir[i].kind = "Set" THEN {} ELSE Subtree(ir, at(ir[i].op1)))
           \cup (IF ir[i].kind \in BinaryKinds THEN Subtree(ir, at(ir[i].op2)) ELSE {})

\* remove_nop keeps the order of the instructions it keeps: the instruction
\* at index j of PreElision, when kept, is at this index of IR
Kept(j) == Cardinality({k \in 1..j : PreElision[k].kind # "Nop"})

\* C13: a compiled query has no instruction with an explicitly empty ns; for
\* every instruction to_ir emitted with ns = {} the unary instructions of its
\* subtree (itself included) were turned into Nops and elided, the Sets of
\* its subtree have no titles and an empty constraint, and when the query is
\* evaluated every register of the subtree holds the empty set and none of
\* its instructions issued a request
C13_EmptyNsPruned ==
    Compiled =>
        /\ \A i \in 1..Len(IR) : ~ns_empty(IR[i])
        /\ \A kinds \in {{"Set"}, UnaryKinds, BinaryKinds} :
              KindCount(IR, kinds) = KindCount(PreElision, kinds)
        /\ \A i \in 1..Len(Emitted) : ns_empty(Emitted[i]) =>
              \A j \in Subtree(Emitted, i) :
                 /\ Emitted[j].kind \in UnaryKinds => PreElision[j].kind = "Nop"
                 /\ Emitted[j].kind = "Set" =>
                       /\ PreElision[j] = InstSet(Emitted[j].dest, <<>>, NewSetConstraint)
                       /\ IR[Kept(j)].kind = "Set"
                       /\ IR[Kept(j)].titles = <<>>
                       /\ IR[Kept(j)].cs = NewSetConstraint
                 /\ (IsSome(solved) /\ PreElision[j].kind # "Nop") =>
                       LET d == IR[Kept(j)].dest
                       IN /\ d \in DOMAIN Result.reg => Result.reg[d] = {}
                          /\ \A k \in 1..Len(Result.reqs) : Result.reqs[k].dest # d

\* a fetch with an explicitly empty ns whose operand held a page has been
\* compiled and evaluated: without the optimizer it issues a request
C13_Witness ==
    /\ Solved
    /\ Result.ok
    /\ Result.reqs = <<>>
    /\ \E i \in 1..Len(Emitted) :
          /\ ns_empty(Emitted[i])
          /\ Emitted[i].kind \in ConstrainedUnaryKinds
          /\ \E k \in 1..Len(Plain.reqs) : Plain.reqs[k].dest = Emitted[i].dest

\* the instructions of the subtree of ir rooted at index i, in order
SubIR(ir, i) ==
    LET RECURSIVE From(_)
        From(k) ==
            IF k > Len(ir) THEN <<>>
            ELSE (IF k \in Subtree(ir, i) THEN <<ir[k]>> ELSE <<>>) \o From(k + 1)
    IN From(1)

\* every operand of a remote fetch of the expression denotes at most one
\* page: evaluated on its own, the operand's subtree yields at most one title
OperandsSingle ==
    \A i \in 1..Len(Emitted) : Emitted[i].kind \in ConstrainedUnaryKinds =>
        LET k == CHOOSE k \in 1..Len(Emitted) : Emitted[k].dest = Emitted[i].op1
            r == Eval(SubIR(Emitted, k), Emitted[i].op1)
        IN r.ok => Cardinality(r.set) <= 1

FailedAt == CHOOSE i \in 1..Len(IR) :
                /\ IR[i].dest \notin DOMAIN Result.reg
                /\ \A k \in 1..(i - 1) : IR[k].dest \in DOMAIN Result.reg
RequestsOf(d) == {k \in 1..Len(Result.reqs) : Result.reqs[k].dest = d}

\* C15: for every Link, LinkTo, EmbeddedIn, InCat and Prefix instruction that
\* solve_api reached: an operand of more than one title ends the evaluation
\* with QueryForMultiplePages and no request of that instruction; an empty
\* operand writes the empty set with no request; a request is issued only
\* for an operand of exactly one title; and QueryForMultiplePages has no
\* other cause
C15_FetchOperandCardinality ==
    Solved =>
        /\ \A i \in 1..Len(IR) :
              (IR[i].kind \in ConstrainedUnaryKinds /\ IR[i].op1 \in DOMAIN Result.reg) =>
                 LET operand == Result.reg[IR[i].op1]
                     d == IR[i].dest
                 IN /\ Cardinality(operand) > 1 =>
                          /\ ~Result.ok
                          /\ Result.err = "QueryForMultiplePages"
                          /\ FailedAt = i
                          /\ RequestsOf(d) = {}
                    /\ operand = {} =>
                          /\ d \in DOMAIN Result.reg
                          /\ Result.reg[d] = {}
                          /\ RequestsOf(d) = {}
                    /\ RequestsOf(d) # {} => Cardinality(operand) = 1
        /\ \A k \in 1..Len(Result.reqs) :
              \E i \in 1..Len(IR) :
                 IR[i].kind \in ConstrainedUnaryKinds /\ IR[i].dest = Result.reqs[k].dest
        /\ (~Result.ok /\ Result.err = "QueryForMultiplePages") =>
              /\ IR[FailedAt].kind \in ConstrainedUnaryKinds
              /\ Cardinality(Result.reg[IR[FailedAt].op1]) > 1

\* an evaluation in which one fetch issued a request for its single operand
\* and a later fetch failed on an operand of several titles
C15_Witness ==
    /\ Solved
    /\ ~Result.ok
    /\ Result.err = "QueryForMultiplePages"
    /\ Result.reqs # <<>>
    /\ Cardinality(Result.reg[IR[FailedAt].op1]) > 1

\* an evaluation in which a fetch over an empty operand wrote the empty set
C15_WitnessEmpty ==
    /\ Solved
    /\ \E i \in 1..Len(IR) :
          /\ IR[i].kind \in ConstrainedUnaryKinds
          /\ IR[i].op1 \in DOMAIN Result.reg
          /\ Result.reg[IR[i].op1] = {}
          /\ IR[i].dest \in DOMAIN Result.reg

\* C16: every And, Or, Exclude and Xor instruction that was evaluated wrote
\* the intersection, union, difference and symmetric difference of its two
\* operand registers and issued no request; a successfully evaluated
\* expression and its rearrangement by a set law (commutativity and
\* associativity of union and intersection, distributivity of each over the
\* other, De Morgan for difference) evaluate to the same set
C16_SetAlgebra ==
    Solved =>
        /\ \A i \in 1..Len(IR) :
              (IR[i].kind \in BinaryKinds /\ IR[i].dest \in DOMAIN Result.reg) =>
                 LET a == Result.reg[IR[i].op1]
                     b == Result.reg[IR[i].op2]
                     w == Result.reg[IR[i].dest]
                 IN /\ RequestsOf(IR[i].dest) = {}
                    /\ \A t \in a \cup b \cup w :
                          t \in w <=> CASE IR[i].kind = "And" -> t \in a /\ t \in b
                                         [] IR[i].kind = "Or" -> t \in a \/ t \in b
                                         [] IR[i].kind = "Exclude" -> t \in a /\ t \notin b
                                         [] IR[i].kind = "Xor" -> (t \in a) # (t \in b)
        /\ (Result.ok /\ Unwrap(src).k = "Binary") =>
              LET e == Unwrap(src)
                  l == Unwrap(e.l)
                  r == Unwrap(e.r)
                  Same(e2) == EvalExpr(e2).ok /\ EvalExpr(e2).set = Result.set
                  Dual(op) == IF op = "And" THEN "Or" ELSE "And"
              IN /\ e.op \in {"And", "Or", "Xor"} => Same(ExprBinary(r, e.op, l))
                 /\ (e.op \in {"And", "Or"} /\ l.k = "Binary" /\ l.op = e.op) =>
                       Same(ExprBinary(Unwrap(l.l), e.op, ExprBinary(Unwrap(l.r), e.op, r)))
                 /\ (e.op \in {"And", "Or"} /\ r.k = "Binary" /\ r.op = Dual(e.op)) =>
                       Same(ExprBinary(ExprBinary(l, e.op, Unwrap(r.l)), r.op,
                                       ExprBinary(l, e.op, Unwrap(r.r))))
                 /\ (e.op = "Exclude" /\ r.k = "Binary" /\ r.op \in {"And", "Or"}) =>
                       Same(ExprBinary(ExprBinary(l, "Exclude", Unwrap(r.l)), Dual(r.op),
                                       ExprBinary(l, "Exclude", Unwrap(r.r))))

\* page(..) - (page(..) | page(..)) has been evaluated to a non-empty set
C16_Witness ==
    /\ Solved
    /\ Result.ok
    /\ Result.set # {}
    /\ Unwrap(src).k = "Binary"
    /\ Unwrap(src).op = "Exclude"
    /\ Unwrap(Unwrap(src).r).k = "Binary"
    /\ Unwrap(Unwrap(src).r).op = "Or"
    /\ Result.reg[IR[Len(IR)].op2] # {}

\* C17: for the evaluated expression e, toggle(toggle(e)) evaluates as e does,
\* both as parse compiles it and as to_ir emits it with its two Toggle
\* instructions; and every evaluated Toggle wrote, for each title of its
\* operand, the title of the same name whose namespace id has the low bit
\* flipped
C17_ToggleSelfInverse ==
    Solved =>
        LET tt == ExprUnary("Toggle", ExprUnary("Toggle", Unwrap(src)))
            twice == to_ir(tt)
            plain2 == Eval(twice.inst, twice.fin)
        IN /\ EvalExpr(tt).ok = Result.ok
           /\ EvalExpr(tt).set = Result.set
           /\ EvalExpr(tt).err = Result.err
           /\ twice.ok
           /\ KindCount(twice.inst, {"Toggle"}) >= 2
           /\ plain2.ok = Plain.ok
           /\ plain2.set = Plain.set
           /\ \A i \in 1..Len(IR) :
                 (IR[i].kind = "Toggle" /\ IR[i].dest \in DOMAIN Result.reg) =>
                    Result.reg[IR[i].dest] =
                        {Title(t.ns + 1 - 2 * (t.ns % 2), t.name) : t \in Result.reg[IR[i].op1]}

\* an expression with a Toggle over a fetch has been evaluated to a
\* non-empty set
C17_Witness ==
    /\ Solved
    /\ Result.ok
    /\ Result.set # {}
    /\ Result.reqs # <<>>
    /\ KindCount(IR, {"Toggle"}) = 1

\* the namespace id and the name of the full names used
NsOf(t) == CASE t = "Talk:A" -> 1 [] t = "Category:X" -> 14 [] OTHER -> 0
NameOf(t) == CASE t = "Talk:A" -> "A" [] t = "Category:X" -> "X" [] OTHER -> t

\* C18: every Set instruction solve_api reached wrote exactly the titles of
\* its list whose namespace id is in its ns filter, all of them when it has
\* no ns filter; it issued no request and the evaluation did not end at it
C18_SetFiltersByNs ==
    Solved =>
        /\ \A i \in 1..Len(IR) :
              (IR[i].kind = "Set" /\ \A k \in 1..(i - 1) : IR[k].dest \in DOMAIN Result.reg) =>
                 /\ IR[i].dest \in DOMAIN Result.reg
                 /\ RequestsOf(IR[i].dest) = {}
                 /\ \A t \in SeqToSet(IR[i].titles) :
                       Title(NsOf(t), NameOf(t)) \in Result.reg[IR[i].dest]
                          <=> (IsSome(IR[i].cs.ns) => NsOf(t) \in Unwrap(IR[i].cs.ns))
                 /\ \A x \in Result.reg[IR[i].dest] :
                       \E t \in SeqToSet(IR[i].titles) : x = Title(NsOf(t), NameOf(t))

\* a Set whose ns filter admits one of its two titles has been evaluated
C18_Witness ==
    /\ Solved
    /\ \E i \in 1..Len(IR) :
          /\ IR[i].kind = "Set"
          /\ IsSome(IR[i].cs.ns)
          /\ Len(IR[i].titles) = 2
          /\ IR[i].dest \in DOMAIN Result.reg
          /\ Cardinality(Result.reg[IR[i].dest]) = 1

\* the evaluated expression is incat(page("Category:X")).depth(-1), with the
\* further constraints more, over the category tree
TreeExample(more) ==
    /\ Solved
    /\ Wiki = WikiTree
    /\ Unwrap(src) = ExprConstrained(ExprUnary("InCategory", ExprPage(<<"Category:X">>)),
                                     <<<<"Depth", -1>>>> \o more)
Pages123 == {Title(0, "p1"), Title(0, "p2"), Title(0, "p3")}
SubcatsYZ == {Title(14, "Y"), Title(14, "Z")}
\* the InCat instructions that were evaluated, as indexes of IR
EvaluatedInCats ==
    {i \in 1..Len(IR) : IR[i].kind = "InCat" /\ IR[i].dest \in DOMAIN Result.reg}

\* C19 as stated: the example yields {p1, p2, p3}, and the result of an InCat
\* holds a category title only if 14 is in its ns filter
C19_SubcatsOnlyWithNs14 ==
    /\ TreeExample(<<>>) => (Result.ok /\ Result.set = Pages123)
    /\ Solved =>
          \A i \in EvaluatedInCats :
             (\E t \in Result.reg[IR[i].dest] : t.ns = 14)
                => (IsSome(IR[i].cs.ns) /\ 14 \in Unwrap(IR[i].cs.ns))

\* C19: over the category tree incat(page("Category:X")).depth(-1) yields
\* {p1, p2, p3} and the subcategories Y and Z; with ns(0) it yields
\* {p1, p2, p3}, with ns(0, 14) again the subcategories as well.  The result
\* of an InCat holds a category title only if it has no ns filter or 14 is
\* in the filter, and then, without a limit, it holds every subcategory that
\* is a member of the category asked for
C19_SubcatsUnlessFilteredOut ==
    /\ TreeExample(<<>>) => (Result.ok /\ Result.set = Pages123 \cup SubcatsYZ)
    /\ TreeExample(<< <<"Ns", <<0>> >> >>) => (Result.ok /\ Result.set = Pages123)
    /\ TreeExample(<< <<"Ns", <<0, 14>> >> >>) =>
          (Result.ok /\ Result.set = Pages123 \cup SubcatsYZ)
    /\ Solved =>
          \A i \in EvaluatedInCats :
             LET ns == IR[i].cs.ns
                 wanted == IsSome(ns) => 14 \in Unwrap(ns)
                 root == Result.reg[IR[i].op1]
                 subcats == {m[1] : m \in {m \in Wiki.cat : m[2] \in root /\ m[1].ns = 14}}
             IN /\ ~wanted => \A t \in Result.reg[IR[i].dest] : t.ns # 14
                /\ (wanted /\ ~IsSome(IR[i].cs.limit)) => subcats \subseteq Result.reg[IR[i].dest]

\* the example has been evaluated without an ns filter
C19_Witness == TreeExample(<<>>) /\ SubcatsYZ \subseteq Result.set

\* C20: the category traversal of every evaluated InCat ended (it never needed
\* more iterations than there are titles in the category relation, on the
\* tree and on the graph with the cycle X -> Y -> Z -> X), and no two of the
\* requests of one InCat ask for the members of the same category
C20_TraversalTerminates ==
    Solved =>
        /\ Result.err # "diverged"
        /\ \A k1, k2 \in 1..Len(Result.reqs) :
              (/\ k1 # k2
               /\ Result.reqs[k1].dest = Result.reqs[k2].dest
               /\ Result.reqs[k1].params.generator = "categorymembers"
               /\ Result.reqs[k2].params.generator = "categorymembers")
                  => Result.reqs[k1].params.title # Result.reqs[k2].params.title

\* an InCat has walked the whole cycle: it asked for the members of X, Y
\* and Z, each of which is reachable from itself
C20_Witness ==
    /\ Solved
    /\ Wiki = WikiCycle
    /\ Result.ok
    /\ {Result.reqs[k].params.title : k \in 1..Len(Result.reqs)}
          = {Title(14, "X"), Title(14, "Y"), Title(14, "Z")}
    /\ Title(14, "X") \in Result.set

\* C21: every evaluated Prefix over a single seed title whose ns filter lacks
\* the seed's namespace wrote the empty set and issued no request; every other
\* evaluated Prefix over a single seed issued exactly one request, a prefix
\* enumeration for the seed restricted to the seed's namespace
C21_PrefixShortCircuit ==
    Solved =>
        \A i \in 1..Len(IR) :
           (/\ IR[i].kind = "Prefix"
            /\ IR[i].dest \in DOMAIN Result.reg
            /\ Result.reg[IR[i].op1] # {}) =>
              LET seed == CHOOSE t \in Result.reg[IR[i].op1] : TRUE
                  ns == IR[i].cs.ns
                  mine == RequestsOf(IR[i].dest)
              IN IF IsSome(ns) /\ seed.ns \notin Unwrap(ns)
                 THEN Result.reg[IR[i].dest] = {} /\ mine = {}
                 ELSE /\ Cardinality(mine) = 1
                      /\ \A k \in mine :
                            /\ Result.reqs[k].params.generator = "allpages"
                            /\ Result.reqs[k].params.title = seed
                            /\ Result.reqs[k].params.namespace = Some({seed.ns})

\* prefix(page("Category:X")).ns(0) has been evaluated
C21_Witness ==
    /\ Solved
    /\ Result.ok
    /\ Unwrap(src) = ExprConstrained(ExprUnary("Prefix", ExprPage(<<"Category:X">>)),
                                     << <<"Ns", <<0>> >> >>)
    /\ Result.reqs = <<>>
    /\ Result.set = {}

\* C22: every evaluated LinkTo over a single target T issued one backlinks
\* request.  Without directlink = true the request asks for the second hop
\* and carries no namespace parameter, every title written is in the ns
\* filter, and (with no redir filter and no limit) a page P that links to a
\* redirect R of T is written when the ns filter admits it.  With
\* directlink = true the request does not ask for the second hop and carries
\* the ns filter, and such a P is written only if it also links to T itself
C22_LinkToSecondHop ==
    Solved =>
        \A i \in 1..Len(IR) :
           (/\ IR[i].kind = "LinkTo"
            /\ IR[i].dest \in DOMAIN Result.reg
            /\ Result.reg[IR[i].op1] # {}) =>
              LET T == CHOOSE t \in Result.reg[IR[i].op1] : TRUE
                  cs == IR[i].cs
                  direct == IsSome(cs.directlink) /\ Unwrap(cs.directlink)
                  mine == RequestsOf(IR[i].dest)
                  written == Result.reg[IR[i].dest]
                  R == {rd[1] : rd \in {rd \in Wiki.redirect : rd[2] = T}}
                  viaRedirect == {l[1] : l \in {l \in Wiki.links : l[2] \in R}}
                  linksToT == {l[1] : l \in {l \in Wiki.links : l[2] = T}}
                  plain == ~IsSome(cs.redir) /\ ~IsSome(cs.limit) /\ ~IsSome(cs.resolveredir)
              IN /\ Cardinality(mine) = 1
                 /\ \A k \in mine :
                       /\ Result.reqs[k].params.generator = "backlinks"
                       /\ Result.reqs[k].params.title = T
                       /\ Result.reqs[k].params.blredirect = ~direct
                       /\ Result.reqs[k].params.namespace = IF direct THEN cs.ns ELSE None
                 /\ IsSome(cs.ns) => \A t \in written : t.ns \in Unwrap(cs.ns)
                 /\ (plain /\ ~direct) =>
                       \A P \in viaRedirect : (IsSome(cs.ns) => P.ns \in Unwrap(cs.ns)) => P \in written
                 /\ (plain /\ direct) =>
                       \A P \in viaRedirect \ (linksToT \cup R) : P \notin written

\* linkto(page("A")) has been evaluated over the wiki in which p1 links to
\* R, a redirect to A
C22_Witness ==
    /\ Solved
    /\ Wiki = WikiCycle
    /\ Unwrap(src) = ExprUnary("LinkTo", ExprPage(<<"A">>))
    /\ Title(0, "p1") \in Result.set
    /\ Title(0, "R") \in Result.set

\* linkto(page("A")).directlink(true) has been evaluated over the same wiki
C22_WitnessDirect ==
    /\ Solved
    /\ Wiki = WikiCycle
    /\ Unwrap(src) = ExprConstrained(ExprUnary("LinkTo", ExprPage(<<"A">>)),
                                     << <<"DirectLink", TRUE>> >>)
    /\ Title(0, "p1") \notin Result.set
    /\ Title(0, "R") \in Result.set

(***************************************************************************)
(* Properties of the edit request (SpecWriter)                             *)
(***************************************************************************)

\* the outcome of the query the edit at position j of h reports
ResultAt(h, j) ==
    LET last == CHOOSE k \in Before(h, "result", j) : \A m \in Before(h, "result", j) : m <= k
    IN h[last][2]

\* the header-status marker of task r with one of the four status words
Marker(r, status) ==
    <<"<noinclude>{{subst:", runner[r].output_header, "|taskid=", ToString(r),
      "|status=", status, "}}</noinclude>">>

\* before, the items joined by between, and after
ListBody(fmt, titles) ==
    LET n == Len(titles)
        item(k) == substitute_str_template_with_title(fmt.success.item, titles[k], k, n)
        between == substitute_str_template(fmt.success.between, n)
        RECURSIVE Joined(_)
        Joined(k) == IF k = 1 THEN item(1) ELSE Joined(k - 1) \o between \o item(k)
    IN substitute_str_template(fmt.success.before, n) \o Joined(n)
       \o substitute_str_template(fmt.success.after, n)

\* C23: the text of every edit request is the header-status marker (task
\* id, and status success, timeout, parse or runtime as the query succeeded,
\* timed out, failed to compile or failed to evaluate) followed by the
\* format's empty string when the query succeeded with no title, by before,
\* the items joined by between, and after when it succeeded with at least
\* one title, and by the format's failure string on any error.
C23_EditBody ==
    \A r \in TaskIds : \A j \in Positions(Hist(r), "edit") :
        LET result == ResultAt(Hist(r), j)
            fmt == runner[r].task.output[Hist(r)[j][2]]
            status == CASE result.ok -> "success"
                        [] ~result.ok /\ result.err = "Timeout" -> "timeout"
                        [] ~result.ok /\ result.err = "Parse" -> "parse"
                        [] ~result.ok /\ result.err = "Solve" -> "runtime"
        IN /\ Before(Hist(r), "result", j) # {}
           /\ EditText(Hist(r), j) =
                 Marker(r, status)
                 \o (IF ~result.ok THEN fmt.failure
                     ELSE IF Len(result.titles) = 0 THEN fmt.empty
                     ELSE ListBody(fmt, result.titles))

\* a query with three titles has been written: "3:" the names joined by ","
\* and "$" follow the success marker
C23_Witness ==
    \E r \in TaskIds : \E j \in Positions(Hist(r), "edit") :
        /\ Before(Hist(r), "result", j) # {}
        /\ ResultAt(Hist(r), j).ok
        /\ Len(ResultAt(Hist(r), j).titles) = 3
        /\ EditText(Hist(r), j) =
              Marker(r, "success") \o <<"3", ":", "P", ",", "Q", ",", "P", "$">>

\* an edit has been written for each of the other outcomes
C23_WitnessOthers ==
    \E r \in TaskIds : \E j \in Positions(Hist(r), "edit") :
        /\ Before(Hist(r), "result", j) # {}
        /\ \/ ResultAt(Hist(r), j) = ResultOk(<<>>) /\ EditText(Hist(r), j) = Marker(r, "success") \o <<"E">>
           \/ ResultAt(Hist(r), j) = ResultErr("Parse") /\ EditText(Hist(r), j) = Marker(r, "parse") \o <<"F">>
           \/ ResultAt(Hist(r), j) = ResultErr("Solve") /\ EditText(Hist(r), j) = Marker(r, "runtime") \o <<"F">>

(***************************************************************************)
(* Properties of the constraints (SpecCompiler)                            *)
(***************************************************************************)

\* the kind of the instruction a unary operator of the AST is compiled to
KindOfOp(op) == IF op = "InCategory" THEN "InCat" ELSE op

\* the instructions a constraint attached to e reaches, as <<kind, con>>:
\* both branches of a set operation, through Constrained nodes, and through
\* toggle with the namespaces switched to their talk or subject namespace
RECURSIVE Reaches(_, _)
Reaches(e, con) ==
    CASE e.k = "Page" -> {<<"Set", con>>}
      [] e.k = "Constrained" -> Reaches(Unwrap(e.l), con)
      [] e.k = "Binary" -> Reaches(Unwrap(e.l), con) \cup Reaches(Unwrap(e.r), con)
      [] e.k = "Unary" /\ e.op = "Toggle" ->
            Reaches(Unwrap(e.l),
                    IF IsSome(con.ns)
                    THEN [con EXCEPT !.ns = Some({n + 1 - 2 * (n % 2) : n \in Unwrap(con.ns)})]
                    ELSE con)
      [] OTHER -> {<<KindOfOp(e.op), con>>}

\* the Constrained nodes of e
RECURSIVE ConstrainedNodes(_)
ConstrainedNodes(e) ==
    (IF e.k = "Constrained" THEN {e} ELSE {})
    \cup (IF IsSome(e.l) THEN ConstrainedNodes(Unwrap(e.l)) ELSE {})
    \cup (IF IsSome(e.r) THEN ConstrainedNodes(Unwrap(e.r)) ELSE {})

\* every <<kind, con>> of a constraint list of e that by itself is free of
\* conflicts
AllReaches(e) ==
    UNION {Reaches(n, construct_constraints_from_vec(n.c).cs) :
             n \in {m \in ConstrainedNodes(e) : construct_constraints_from_vec(m.c).ok}}

\* the fields an instruction does not take
NotAllowed(kind, con) ==
    LET has(f) == IsSome(con[f])
        redirNotAll == has("redir") /\ Unwrap(con.redir) # "All"
    IN CASE kind = "Link" -> has("depth") \/ has("directlink") \/ redirNotAll
         [] kind = "LinkTo" -> has("depth")
         [] kind = "EmbeddedIn" -> has("depth") \/ has("directlink")
         [] kind = "InCat" -> has("directlink") \/ redirNotAll
         [] kind = "Prefix" -> has("depth") \/ has("directlink") \/ has("resolveredir")
         [] kind = "Set" -> has("depth") \/ has("redir") \/ has("directlink") \/ has("resolveredir")

\* C24: whenever a constraint reaches an instruction with a field that
\* instruction does not take (depth, directlink or redir other than All for
\* Link; depth for LinkTo; depth or directlink for EmbeddedIn; directlink or
\* redir other than All for InCat; depth, directlink or resolveredir for
\* Prefix; depth, redir, directlink or resolveredir for Set), compilation
\* fails with a Semantic error and returns no IR; a single constraint list
\* free of conflicts whose fields are all taken is accepted, and to_ir's
\* instructions it reaches carry exactly its fields.
C24_ForbiddenFieldRejected ==
    (IsSome(query) /\ IsSome(src)) =>
        LET e == Unwrap(src)
            reached == AllReaches(e)
        IN /\ (\E p \in reached : NotAllowed(p[1], p[2])) =>
                 Unwrap(query) = IrErr("Semantic")
           /\ (/\ Cardinality(ConstrainedNodes(e)) = 1
               /\ \A n \in ConstrainedNodes(e) : construct_constraints_from_vec(n.c).ok
               /\ \A p \in reached : ~NotAllowed(p[1], p[2])) =>
                 /\ Unwrap(query).ok
                 /\ to_ir(e).ok
                 /\ {<<i.kind, i.cs>> : i \in {i \in SeqToSet(to_ir(e).inst) : i.cs # NewSetConstraint}}
                      = {p \in reached : p[2] # NewSetConstraint}

\* linkto(page("A")).depth(1) has been rejected
C24_Witness ==
    /\ IsSome(src) /\ IsSome(query)
    /\ Unwrap(src) = ExprConstrained(ExprUnary("LinkTo", ExprPage(<<"A">>)), << <<"Depth", 1>> >>)
    /\ Unwrap(query) = IrErr("Semantic")

\* incat(page("A")).redir(all).depth(1) has been accepted
C24_WitnessAccepted ==
    /\ IsSome(src) /\ IsSome(query)
    /\ Unwrap(src) = ExprConstrained(ExprUnary("InCategory", ExprPage(<<"A">>)),
                                     << <<"Redir", "All">>, <<"Depth", 1>> >>)
    /\ Unwrap(query).ok

(***************************************************************************)
(* Properties of the constraint functions (SpecConstraints)                *)
(***************************************************************************)

Made == IsSome(cons.made)
\* the two SetConstraints handed to merge_constraints, and its result
Orig == Unwrap(cons.made).a.cs
Other == Unwrap(cons.made).b.cs
Merged == Unwrap(Unwrap(cons.made).merged)
WasMerged == Made /\ IsSome(Unwrap(cons.made).merged)

\* field f is present on both sides
Both(f) == IsSome(Orig[f]) /\ IsSome(Other[f])

\* the conflicts of the merge rule
MergeConflict ==
    \/ /\ Both("depth")
       /\ Unwrap(Orig.depth) # Unwrap(Other.depth)
       /\ ~(Unwrap(Orig.depth) < 0 /\ Unwrap(Other.depth) < 0)
    \/ \E f \in {"redir", "directlink", "resolveredir"} :
          Both(f) /\ Unwrap(Orig[f]) # Unwrap(Other[f])

\* C25: merge_constraints of two SetConstraints fails (Semantic) exactly when
\* both depths are present, unequal and not both negative, or redir,
\* directlink or resolveredir is present on both sides with different
\* values; on success ns is the intersection when both are present and the
\* present one otherwise, and depth, redir, directlink and resolveredir keep
\* the original's value when it is present and take the other's otherwise.
C25_MergeRule ==
    WasMerged =>
        /\ Merged.ok <=> ~MergeConflict
        /\ Merged.ok =>
              /\ Merged.cs.ns = (IF Both("ns")
                                 THEN Some(Unwrap(Orig.ns) \cap Unwrap(Other.ns))
                                 ELSE IF IsSome(Orig.ns) THEN Orig.ns ELSE Other.ns)
              /\ \A f \in {"depth", "redir", "directlink", "resolveredir"} :
                    Merged.cs[f] = (IF IsSome(Orig[f]) THEN Orig[f] ELSE Other[f])

\* depth(-1) has been merged with depth(-2) and ns(0, 1) with ns(0): the
\* original's depth and the common namespace are kept
C25_Witness ==
    /\ WasMerged
    /\ Merged.ok
    /\ Orig.depth = Some(-1) /\ Other.depth = Some(-2) /\ Merged.cs.depth = Some(-1)
    /\ Orig.ns = Some({0, 1}) /\ Other.ns = Some({0}) /\ Merged.cs.ns = Some({0})

\* redir(all) has been merged with redir(noredirect): a conflict
C25_WitnessConflict ==
    /\ WasMerged
    /\ ~Merged.ok
    /\ Orig.redir = Some("All") /\ Other.redir = Some("NoRedirect")
    /\ ~Both("depth") /\ ~Both("directlink") /\ ~Both("resolveredir")

\* the limits given in a constraint list, in the order given
LimitsOf(list) == SelectSeq(list, LAMBDA c : c[1] = "Limit")

\* the minimum of the limits of a list with negative values counted as
\* unbounded: "none" without a limit, "unbounded" when all are negative
MinLimit(list) ==
    LET given == {c[2] : c \in SeqToSet(LimitsOf(list))}
        bounded == {l \in given : l >= 0}
    IN IF given = {} THEN "none"
       ELSE IF bounded = {} THEN "unbounded"
       ELSE ToString(CHOOSE l \in bounded : \A m \in bounded : l <= m)

\* what a limit field amounts to
LimitOf(field) ==
    IF ~IsSome(field) THEN "none"
    ELSE IF Unwrap(field) < 0 THEN "unbounded"
    ELSE ToString(Unwrap(field))

\* C26: the limit of a constraint list, and the limit merged from two
\* lists, is the minimum of the limits given with negative values counted as
\* unbounded, whatever their order, and a limit given on one side only is
\* kept.
C26_LimitIsMinimum ==
    Made =>
        /\ Unwrap(cons.made).a.ok =>
              LimitOf(Unwrap(cons.made).a.cs.limit) = MinLimit(cons.orig)
        /\ (WasMerged /\ Merged.ok) =>
              LimitOf(Merged.cs.limit) = MinLimit(cons.orig \o cons.other)

\* C27: an expression with a constraint whose ns list holds a negative
\* namespace id does not compile: parse returns a Semantic error and no IR.
C27_NegativeNsRejected ==
    (IsSome(query) /\ IsSome(src)) =>
        ((\E n \in ConstrainedNodes(Unwrap(src)) : \E i \in 1..Len(n.c) :
             n.c[i][1] = "Ns" /\ \E id \in SeqToSet(n.c[i][2]) : id < 0)
         => Unwrap(query) = IrErr("Semantic"))

(***************************************************************************)
(* Properties of the gateway (SpecGateway, Spec, SpecWriter)               *)
(***************************************************************************)

\* C28: no request of get, get_limit, post or post_edit is in flight while
\* the session is installed or re-logged-in or the CSRF token is replaced:
\* nobody holds the read side of the session lock while somebody holds the
\* write side, and every step that changes the session or the token is
\* taken with no reader.
C28_NoRequestDuringSessionChange ==
    /\ [](IsSome(api_writer) => api_readers = {})
    /\ [][(api' # api \/ csrf' # csrf) => api_readers = {}]_vars

\* C29: while no session exists no request is issued and every gateway
\* operation returns at once with the error (the finder's reads end the
\* cycle, the runner's fetch fails, the writer's prop=info read is an error
\* and its edit is not submitted); the session is installed by the
\* initialisation step of the keep-alive task only, which the task reaches on
\* its next wake, and once installed the session stays.
C29_NoSessionUntilKeepAlive ==
    /\ [](api = None => api_readers = {})
    /\ [][api = None =>
            /\ (f_pc \in {"cfg_get", "list_get"} /\ f_pc' # f_pc) => f_pc' = "clamp"
            /\ \A r \in TaskIds :
                  /\ (runner[r].pc = "fetch_get" /\ runner'[r] # runner[r]) =>
                        runner'[r] = AfterFetchFailure(runner[r])
                  /\ (runner[r].pc = "writer" /\ runner[r].wpc = "w_get"
                      /\ runner'[r] # runner[r]) =>
                        /\ runner'[r].wpc # "w_wait"
                        /\ runner'[r].hist[Len(runner'[r].hist)]
                             = <<"guardrail", runner[r].idx, PageQueryErr>>
                  /\ (runner[r].pc = "writer" /\ runner[r].wpc \in {"w_post", "x_solve"}) =>
                        /\ runner'[r].wpc \notin {"w_pwait", "x_req"}
                        /\ Positions(runner'[r].hist, "edit") = Positions(Hist(r), "edit")]_vars
    /\ [][(api' # api) => (api = None /\ IsSome(api') /\ ka_pc = "init")]_vars
    /\ (api = None) ~> (ka_pc = "init")

\* the finder's read of the site configuration has returned with no session
\* installed yet
C29_Witness == api = None /\ f_pc = "clamp"

\* a request is in flight over the session the keep-alive task installed
C29_WitnessInstalled == IsSome(api) /\ api_readers # {}

C31_DroppedTasksAreAborted ==
    /\ [][\A r \in TaskIds :
            /\ (f_pc = "update" /\ f_pc' # "update" /\ r \in task_map /\ r \notin f_cycle.pool) =>
                  (runner'[r] = AbsentRunner /\ r \notin api_readers' /\ r \notin task_map')
            /\ (runner[r].pc = "absent" /\ runner'[r] # runner[r]) =>
                  (runner'[r] = SpawnedRunner /\ f_pc = "update" /\ r \in task_map')
            /\ (f_pc # "dropped" /\ f_pc' = "dropped") =>
                  (runner'[r] = AbsentRunner /\ r \notin api_readers')]_vars
    /\ [](f_pc = "dropped" =>
            /\ \A r \in TaskIds : runner[r].pc = "absent"
            /\ api_readers = {})
    /\ [](\A r \in TaskIds : runner[r].pc = "absent" => r \notin api_readers)
    /\ [](ka_pc = "stopped" => ~IsSome(api_writer))
    /\ [][ka_pc = "stopped" => (ka_pc' = "stopped" /\ api' = api /\ csrf' = csrf)]_vars

\* a finder cycle has removed a runner whose id left the catalog
C31_Witness ==
    /\ f_pc = "sleep"
    /\ \E r \in f_cycle.map_at_start : r \notin task_map /\ runner[r] = AbsentRunner

\* the finder and then the gateway have been dropped after a session was
\* installed
C31_WitnessDrop ==
    /\ f_pc = "dropped"
    /\ \A r \in TaskIds : runner[r] = AbsentRunner
    /\ IsSome(api)
    /\ ka_pc = "stopped"

\* C32: PageWriter::start is entered only in an iteration whose cron
\* expression parses: the cron expression is parsed before the alignment and
\* activation check and the execution, and an iteration whose cron
\* expression fails to parse executes nothing.
C32_CronParsedBeforeExecute ==
    \A r \in TaskIds :
        (runner[r].pc = "writer" \/ runner[r].ran) => runner[r].task.cron = GoodCron

\* live(r): the runner's task has not ended at the step from runner to runner'
StepOf(r) == runner'[r] # runner[r] /\ runner'[r].pc # "absent" /\ runner[r].pc # "absent"

\* C33: a failed task fetch and a failed cron parse clear aligned_to_cron and
\* lead to the back-off sleep; the flag stays cleared until the check of the
\* next iteration, which therefore goes on to the cron parse without
\* executing the task.
C33_FailureResetsAlignment ==
    /\ [](\A r \in TaskIds : runner[r].pc = "backoff" => ~runner[r].aligned_to_cron)
    /\ [][\A r \in TaskIds : StepOf(r) =>
            /\ (runner[r].pc = "cron" /\ runner[r].task.cron # GoodCron) =>
                  runner'[r].pc = "backoff"
            /\ (runner[r].pc \in {"fetch_get", "fetch_wait"}
                /\ runner'[r].pc \notin {"fetch_wait", "check"}) =>
                  runner'[r].pc = "backoff"
            /\ (runner[r].pc \in {"backoff", "start", "fetch_get", "fetch_wait"}
                /\ ~runner[r].aligned_to_cron) =>
                  (~runner'[r].aligned_to_cron
                   /\ runner'[r].pc \in {"start", "fetch_get", "fetch_wait", "check", "backoff"})
            /\ (runner[r].pc = "check" /\ ~runner[r].aligned_to_cron) =>
                  (runner'[r].pc = "cron" /\ ~runner'[r].ran)]_vars

\* after a back-off the runner has fetched an active task while the bot is
\* active and has gone on to the cron parse without executing it
C33_Witness ==
    \E r \in TaskIds :
        /\ runner[r].pc = "cron"
        /\ ~runner[r].first
        /\ ~runner[r].aligned_to_cron
        /\ ~runner[r].ran
        /\ runner[r].task.activate
        /\ runner[r].global_activated

\* C34: a runner task is alive exactly for the ids of the runner map, one
\* for each; the map changes only in the finder's update step; and that step
\* leaves the runner of an id that is in the map and in the catalog as it
\* is, with the request it has in flight.
C34_OneRunnerPerId ==
    /\ [](\A r \in TaskIds : runner[r].pc # "absent" <=> r \in task_map)
    /\ [][task_map' # task_map => (f_pc = "update" /\ f_pc' = "sleep")]_vars
    /\ [][\A r \in TaskIds :
            (f_pc = "update" /\ f_pc' = "sleep" /\ r \in task_map /\ r \in f_cycle.pool) =>
                /\ runner'[r] = runner[r]
                /\ r \in task_map'
                /\ (r \in api_readers <=> r \in api_readers')]_vars

\* a finder cycle has ended with the runner of an id that stayed in the
\* catalog in the middle of its task fetch
C34_Witness ==
    /\ f_pc = "sleep"
    /\ \E r \in f_cycle.map_at_start \cap task_map :
          /\ r \in f_cycle.pool
          /\ runner[r].pc = "fetch_wait"
          /\ r \in api_readers

\* the steps of one keep-alive pass over an existing session
KaCheckStep == ka_pc = "check" /\ ka_pc' # "check"
KaReloginStep == ka_pc = "relogin" /\ ka_pc' # "relogin"
OneCheckPerWake ==
    /\ ka_pc' = "check" /\ ka_pc # "check" => ka_pc = "wlock" /\ IsSome(api)
    /\ KaCheckStep => ka_pc' \in {"tick", "relogin"} /\ api' = api /\ csrf' = csrf
    /\ ka_pc' = "relogin" /\ ka_pc # "relogin" => ka_pc = "check"

PageSet(e) == {title_new_from_full(t) : t \in SeqToSet(e.titles)}
Toggled(set) == {Title(t.ns + 1 - 2 * (t.ns % 2), t.name) : t \in set}
\* the evaluated expression is e.ns(N) for one ns constraint
NsOver(kind) ==
    /\ Solved
    /\ Unwrap(src).k = "Constrained"
    /\ Len(Unwrap(src).c) = 1
    /\ Unwrap(src).c[1][1] = "Ns"
    /\ Unwrap(Unwrap(src).l).k = kind
NsGiven == SeqToSet(Unwrap(src).c[1][2])
Under == Unwrap(Unwrap(src).l)

\* C36: for literal page sets a and b, to_ir gives both Set instructions of
\* (a op b).ns(N) the filter N and the Set instruction of toggle(a).ns(N)
\* the filter N with the low bit of every id flipped; (a op b).ns(N)
\* evaluates to the titles of a op b whose namespace is in N, and
\* toggle(a).ns(N) to the toggled titles of a whose namespace is in N
C36_NsThroughBinaryAndToggle ==
    /\ (NsOver("Binary") /\ Unwrap(Under.l).k = "Page" /\ Unwrap(Under.r).k = "Page") =>
          /\ \A i \in 1..Len(Emitted) :
                Emitted[i].kind = "Set" => Emitted[i].cs.ns = Some(NsGiven)
          /\ Result.ok
          /\ Result.set = {t \in SetOp(Under.op, PageSet(Unwrap(Under.l)), PageSet(Unwrap(Under.r))) :
                              t.ns \in NsGiven}
    /\ (NsOver("Unary") /\ Under.op = "Toggle" /\ Unwrap(Under.l).k = "Page") =>
          /\ \A i \in 1..Len(Emitted) :
                Emitted[i].kind = "Set" =>
                    Emitted[i].cs.ns = Some({n + 1 - 2 * (n % 2) : n \in NsGiven})
          /\ Result.ok
          /\ Result.set = {t \in Toggled(PageSet(Unwrap(Under.l))) : t.ns \in NsGiven}

\* toggle(page("A", "Talk:A")).ns(0) has been evaluated to the one title A
C36_Witness ==
    /\ NsOver("Unary")
    /\ Under.op = "Toggle"
    /\ Unwrap(Under.l).k = "Page"
    /\ Len(Unwrap(Under.l).titles) = 2
    /\ NsGiven = {0}
    /\ Result.set = {Title(0, "A")}

\* a union of two literal page sets under an ns filter that removes one of
\* its titles and keeps a title of each operand
C36_WitnessBinary ==
    /\ NsOver("Binary")
    /\ Under.op = "Or"
    /\ Unwrap(Under.l).k = "Page"
    /\ Unwrap(Under.r).k = "Page"
    /\ Result.set = {Title(0, "A"), Title(14, "X")}
    /\ PageSet(Unwrap(Under.l)) \cup PageSet(Unwrap(Under.r)) # Result.set

\* the instructions solve_api executed: all of them, or those up to the one
\* the evaluation ended at
Executed == {i \in 1..Len(IR) : \A k \in 1..(i - 1) : IR[k].dest \in DOMAIN Result.reg}

\* C37: the final register of a compiled query is the dest of its last
\* instruction; when the query is evaluated every operand of an executed
\* instruction is in the register pool when it is read, the final register
\* is in the pool when the sequence was executed to its end, and the
\* evaluation does not fail with UnknownIntermediateValue
C37_NoUnknownIntermediateValue ==
    /\ Compiled => (IR # <<>> /\ Unwrap(query).fin = IR[Len(IR)].dest)
    /\ Solved =>
          /\ Result.err # "UnknownIntermediateValue"
          /\ \A i \in Executed :
                /\ IR[i].kind # "Set" => \E k \in 1..(i - 1) : IR[k].dest = IR[i].op1
                /\ IR[i].kind \in BinaryKinds => \E k \in 1..(i - 1) : IR[k].dest = IR[i].op2
          /\ Result.ok => Unwrap(query).fin \in DOMAIN Result.reg
          /\ Result.ok => Result.set = Result.reg[IR[Len(IR)].dest]

\* a query from whose end remove_nop removed a Toggle has been evaluated to
\* a non-empty set, read from the register to_ir named as the final one
C37_Witness ==
    /\ Solved
    /\ Result.ok
    /\ Result.set # {}
    /\ Len(IR) < Len(Emitted)
    /\ Emitted[Len(Emitted)].kind = "Toggle"
    /\ IR[Len(IR)].kind # "Toggle"
    /\ Unwrap(query).fin = to_ir(Unwrap(src)).fin

\* the categories at distance at most n from root in the category relation
\* of the wiki, and all categories reachable from it
RECURSIVE Within(_, _)
Within(root, n) ==
    IF n = 0 THEN {root}
    ELSE LET W == Within(root, n - 1)
         IN W \cup {m[1] : m \in {m \in Wiki.cat : m[2] \in W /\ m[1].ns = 14}}
Reachable(root) == Within(root, Cardinality(Wiki.cat))
\* the InCat instructions that were executed over a single category
TraversingInCats ==
    {i \in 1..Len(IR) :
        /\ IR[i].kind = "InCat"
        /\ IR[i].op1 \in DOMAIN Result.reg
        /\ Cardinality(Result.reg[IR[i].op1]) = 1
        /\ \A t \in Result.reg[IR[i].op1] : t.ns = 14}
RootOf(i) == CHOOSE t \in Result.reg[IR[i].op1] : TRUE
DepthOf(i) == IF IsSome(IR[i].cs.depth) THEN Unwrap(IR[i].cs.depth) ELSE 0
RequestedBy(i) == {Result.reqs[k].params.title : k \in RequestsOf(IR[i].dest)}
\* the first request of the traversal asks for the root, every request asks
\* for a category, and a depth d >= 0 keeps the requests within distance d
StartsAtRootAndStaysWithin(i) ==
    /\ RequestsOf(IR[i].dest) # {}
    /\ \A k \in RequestsOf(IR[i].dest) :
          /\ Result.reqs[k].params.generator = "categorymembers"
          /\ (\A k2 \in RequestsOf(IR[i].dest) : k <= k2) =>
                Result.reqs[k].params.title = RootOf(i)
    /\ RequestedBy(i) \subseteq Reachable(RootOf(i))
    /\ DepthOf(i) >= 0 => RequestedBy(i) \subseteq Within(RootOf(i), DepthOf(i))

C38_WitnessLimit ==
    /\ Solved
    /\ \E i \in TraversingInCats :
          /\ DepthOf(i) < 0
          /\ IsSome(IR[i].cs.limit)
          /\ RequestedBy(i) # Reachable(RootOf(i))

(***************************************************************************)
(* One evaluation per iteration (SpecWriter)                               *)
(***************************************************************************)

\* C39: in one call of PageWriter::start the expression is compiled at most
\* once and evaluated at most once, whatever the number of outputs; the
\* executor holds a result only when this call has produced it, and then
\* the one it produced; every edit of the call is rendered from that
\* result; and when no guardrail read lets its output through, nothing is
\* compiled, evaluated or written.
C39_OneEvaluationPerIteration ==
    \A r \in TaskIds :
        LET h == Hist(r)
            passed == {g \in Positions(h, "guardrail") :
                          GuardrailVerdict(h[g][3], runner[r].denied_namespace) = "edit"}
        IN /\ Cardinality(Positions(h, "compile")) <= 1
           /\ Cardinality(Positions(h, "evaluate")) <= 1
           /\ Cardinality(Positions(h, "result")) <= 1
           /\ Positions(h, "result") = {} <=> runner[r].result = None
           /\ \A j \in Positions(h, "result") : runner[r].result = Some(h[j][2])
           /\ \A j \in Positions(h, "edit") :
                 /\ IsSome(runner[r].result)
                 /\ EditText(h, j) = EditContent(runner[r].output_header, r,
                                                 runner[r].task.output[h[j][2]],
                                                 Unwrap(runner[r].result))
           /\ passed = {} =>
                 /\ Positions(h, "compile") = {}
                 /\ Positions(h, "evaluate") = {}
                 /\ Positions(h, "edit") = {}

\* two outputs have been written after one compilation and one evaluation
\* that returned titles
C39_Witness ==
    \E r \in TaskIds :
        /\ PositionsOf(Hist(r), "edit", 1) # {}
        /\ PositionsOf(Hist(r), "edit", 2) # {}
        /\ Cardinality(Positions(Hist(r), "compile")) = 1
        /\ Cardinality(Positions(Hist(r), "evaluate")) = 1
        /\ IsSome(runner[r].result)
        /\ Unwrap(runner[r].result).ok
        /\ Unwrap(runner[r].result).titles # <<>>

\* start() has returned after two guardrail reads that let no output
\* through, without a compilation
C39_WitnessSkipped ==
    \E r \in TaskIds :
        /\ runner[r].pc = "cron"
        /\ Cardinality(Positions(Hist(r), "guardrail")) = 2
        /\ Positions(Hist(r), "compile") = {}
        /\ runner[r].result = None

(***************************************************************************)
(* Lock acquisitions (FairSpec)                                            *)
(***************************************************************************)

\* the position of a runner, and the positions at which a runner waits for
\* the response of a request it has sent under the session read lock
PositionOf(r) == <<runner[r].pc, IF runner[r].pc = "writer" THEN runner[r].wpc ELSE "">>
RunnerResponsePositions ==
    {<<"fetch_wait", "">>, <<"writer", "w_wait">>, <<"writer", "x_req">>, <<"writer", "w_pwait">>}

====
